---- MODULE Spec2Model ----
(***************************************************************************)
(* A model of mtap's events client API (src/python/mtap/events.py):        *)
(* Document, Labeler, the generic label adapters, and the per-event        *)
(* metadata / binaries caching proxies, each against an events service     *)
(* that other clients share and whose requests may fail.                   *)
(*                                                                         *)
(* The specifications share the variables:                                 *)
(*   Spec       one Document with its Labelers, operations called one at   *)
(*              a time;                                                    *)
(*   SpecSort   the same Document, committing lists of labels that differ  *)
(*              in start and end;                                          *)
(*   SpecDone   several threads calling done() on one Labeler, one         *)
(*              statement of Labeler.done per step;                        *)
(*   SpecMeta   the _Metadata proxy of one Event;                          *)
(*   SpecBin    the _Binaries proxy of one Event;                          *)
(*   SpecSet    several threads in __setitem__ of one of these proxies;    *)
(*   SpecEvent  one Event: its lease and its lazily created proxies;       *)
(*   SpecAccess several threads reading an Event's proxy attribute;        *)
(*   SpecText   the Documents of one event, through two Event objects.     *)
(***************************************************************************)
EXTENDS Integers, Sequences, FiniteSets, TLC

VARIABLES
    client,            \* Document._client is not None
    label_indices,     \* Document._label_indices
    labelers,          \* Document._labelers
    created_indices,   \* Document._created_indices
    labelerObjs,       \* the Labeler objects handed out by get_labeler
    remote_labels,     \* the events service's label indices of the document
    last,              \* the last call: what was called, how it ended
    pc,                \* SpecDone: each thread's position in Labeler.done
    lock,              \* SpecDone: the holder of Labeler._lock, 0 when free
    ev_client,         \* _Metadata._client / _Binaries._client is not None
    metadata,          \* _Metadata._metadata
    r_metadata,        \* the events service's metadata of the event
    bin_names,         \* _Binaries._names
    binaries,          \* _Binaries._binaries
    r_binaries,        \* the events service's binaries of the event
    plast,             \* the last proxy call: what was called, how it ended
    tl,                \* threaded specifications: each thread's local variables
    e_proxy,           \* Event._documents / _metadata / _binaries, 0 while unset
    e_made,            \* the proxy objects constructed so far, per attribute
    open_requests,     \* the OpenEvent requests the service has received
    close_requests,    \* the CloseEvent requests the service has received
    ev_documents,      \* _Documents.documents of each Event handle
    documentObjs,      \* the Document objects
    r_documents,       \* the events service's documents of the event
    elast              \* the last Event / Document call: what, how it ended

docVars == <<client, label_indices, labelers, created_indices, labelerObjs,
             remote_labels, last>>
thrVars == <<pc, lock>>
metaVars == <<metadata, r_metadata>>
binVars == <<bin_names, binaries, r_binaries>>
proxyVars == <<ev_client, metadata, r_metadata, bin_names, binaries, r_binaries,
               plast>>
evtVars == <<tl, e_proxy, e_made, open_requests, close_requests, ev_documents,
             documentObjs, r_documents, elast>>
vars == <<client, label_indices, labelers, created_indices, labelerObjs,
          remote_labels, last, pc, lock, ev_client, metadata, r_metadata,
          bin_names, binaries, r_binaries, plast, tl, e_proxy, e_made,
          open_requests, close_requests, ev_documents, documentObjs, r_documents,
          elast>>

(***************************************************************************)
(* Bounds of the model.                                                    *)
(***************************************************************************)
\* A Labeler stages at most this many labels.
MaxStaged == 2
\* The threads of SpecDone.
NThreads == 2
\* An Event sends at most this many OpenEvent, and CloseEvent, requests.
MaxRequests == 2
\* At most this many Document objects are constructed.
MaxDocs == 2
\* SpecSort: add_labels is given at most this many labels.
MaxSort == 3

IndexNames == {"one"}

Span(s, e) == [start_index |-> s, end_index |-> e]

\* The labels the callers create: spans [start_index, end_index) that tie on
\* their start and overlap.
LabelUniverse == {Span(0, 2), Span(0, 1)}

RECURSIVE SeqsUpTo(_, _)
SeqsUpTo(S, n) ==
    IF n = 0 THEN {<<>>}
    ELSE LET shorter == SeqsUpTo(S, n - 1)
         IN shorter \cup {Append(q, x) : q \in {r \in shorter : Len(r) = n - 1}, x \in S}

LabelLists == SeqsUpTo(LabelUniverse, MaxStaged)
\* The label indices other clients add: empty, or one label.
OtherClientLists == SeqsUpTo(LabelUniverse, 1)

\* Metadata keys and binary names, and the values stored under them.
Keys == {"k1", "k2"}
Values == {"v1", "v2"}
\* A key that a mapping does not hold.
Absent == "absent"

\* What a request to the events service can do: succeed, or raise.
RpcOutcomes == {"ok", "RpcError"}
\* The outcomes to choose from for a call made with or without a client: with no
\* client no request is sent.
RpcChoices(connected) == IF connected THEN RpcOutcomes ELSE {"ok"}
\* The optional keyword arguments of get_labeler and add_labels.
DistinctArgs == {"none", "true", "false"}
AdapterArgs == {"none", "generic", "distinct"}

(***************************************************************************)
(* Labels, label indices, the generic adapters.                            *)
(***************************************************************************)
\* key=lambda l: l.location, compared as the tuple (start_index, end_index).
LocationLeq(a, b) ==
    \/ a.start_index < b.start_index
    \/ a.start_index = b.start_index /\ a.end_index <= b.end_index

\* One step of a stable insertion: x goes after every element not above it.
RECURSIVE InsertSorted(_, _)
InsertSorted(x, s) ==
    IF s = <<>> THEN <<x>>
    ELSE IF LocationLeq(Head(s), x) THEN <<Head(s)>> \o InsertSorted(x, Tail(s))
    ELSE <<x>> \o s

Unsorted(labels) == labels

\* sorted(labels, key=lambda l: l.location): stable, ascending.
RECURSIVE sorted(_)
sorted(labels) ==
    IF labels = <<>> THEN <<>>
    ELSE InsertSorted(labels[Len(labels)], sorted(SubSeq(labels, 1, Len(labels) - 1)))

NoIndex == [present |-> FALSE, labels |-> <<>>, distinct |-> FALSE]

\* mtap.label_indices.label_index(labels, distinct): the index keeps its labels
\* sorted by location.
label_index(labels, distinct) ==
    [present |-> TRUE, labels |-> sorted(labels), distinct |-> distinct]

\* _GenericLabelAdapter(distinct).distinct for the two stock adapters.
AdapterDistinct(adapter) == adapter = "distinct"

\* _GenericLabelAdapter.create_index
create_index(adapter, labels) == label_index(labels, AdapterDistinct(adapter))

\* _GenericLabelAdapter.add_to_message: the labels are copied into
\* request.json_labels; is_distinct is left at the message's default.
add_to_message(adapter, labels) ==
    [present |-> TRUE, labels |-> labels, distinct |-> FALSE]

\* _GenericLabelAdapter.create_index_from_response
create_index_from_response(adapter, response) ==
    label_index(response.labels, response.distinct)

\* distinct / label_adapter resolved as get_labeler and add_labels resolve them.
ResolveAdapter(distinct, label_adapter) ==
    IF label_adapter # "none" THEN label_adapter
    ELSE IF distinct = "true" THEN "distinct" ELSE "generic"

Call(op, name, labeler, result, calls, exc) ==
    [op |-> op, name |-> name, labeler |-> labeler, result |-> result,
     calls |-> calls, exc |-> exc]

ProxyCall(proxy, op, key, value, result, ret, retset, calls) ==
    [proxy |-> proxy, op |-> op, key |-> key, value |-> value, result |-> result,
     ret |-> ret, retset |-> retset, calls |-> calls]

NoProxyCall == ProxyCall("none", "init", "k1", "v1", "ok", "none", {}, <<>>)

(***************************************************************************)
(* Document.                                                               *)
(***************************************************************************)
\* What a Document method leaves behind: how it ended, the fields it wrote,
\* the requests it sent.
DocOutcome(result, indices, created, remote, calls) ==
    [result |-> result, label_indices |-> indices, created_indices |-> created,
     remote_labels |-> remote, calls |-> calls]

\* A raise after the index had been put in the cache.
DocRaiseCached(result, calls) ==
    DocOutcome(result,
               [n \in IndexNames |-> [label_indices[n] EXCEPT !.present = TRUE]],
               created_indices, remote_labels, calls)

\* The method raises: the fields are as they were.
DocRaise(result, calls) ==
    DocOutcome(result, label_indices, created_indices, remote_labels, calls)

BothSuppliedNever(distinct, label_adapter) == FALSE

\* `distinct is not None and label_adapter is not None`
BothSupplied(distinct, label_adapter) == distinct # "none" /\ label_adapter # "none"

\* `label_index_name in self._label_indices`
IndexExistsNever(label_index_name) == FALSE

IndexExists(label_index_name) == label_indices[label_index_name].present

\* Document.add_labels. rpc is what the AddLabels request does if it is sent.
add_labels(label_index_name, labels, distinct, label_adapter, rpc) ==
    IF IndexExists(label_index_name) THEN DocRaise("KeyError", <<>>)
    ELSE IF BothSupplied(distinct, label_adapter)
    THEN DocRaise("ValueError", <<>>)
    ELSE LET adapter == ResolveAdapter(distinct, label_adapter)
             sortedLabels == sorted(labels)
             index == create_index(adapter, sortedLabels)
         IN IF client /\ rpc # "ok" THEN DocRaise(rpc, <<"AddLabels">>)
            ELSE DocOutcome("ok",
                     [label_indices EXCEPT ![label_index_name] = index],
                     Append(created_indices, label_index_name),
                     IF client
                     THEN [remote_labels EXCEPT ![label_index_name] =
                               add_to_message(adapter, sortedLabels)]
                     ELSE remote_labels,
                     IF client THEN <<"AddLabels">> ELSE <<>>)

\* Document.get_label_index. rpc is what the GetLabels request does if it is
\* sent; the service has no reply for an index it does not hold.
get_label_index(label_index_name, label_adapter, rpc) ==
    IF IndexExists(label_index_name) THEN DocRaise("ok", <<>>)
    ELSE LET adapter == IF label_adapter = "none" THEN "generic" ELSE label_adapter
         IN IF client
            THEN IF rpc # "ok" \/ ~remote_labels[label_index_name].present
                 THEN DocRaise("RpcError", <<"GetLabels">>)
                 ELSE DocOutcome("ok",
                          [label_indices EXCEPT ![label_index_name] =
                               create_index_from_response(
                                   adapter, remote_labels[label_index_name])],
                          created_indices, remote_labels, <<"GetLabels">>)
            ELSE DocRaise("KeyError", <<>>)

\* Labeler.__init__
NewLabeler(label_index_name, label_adapter) ==
    [name |-> label_index_name, adapter |-> label_adapter, is_done |-> FALSE,
     current_labels |-> <<>>, commits |-> 0]

LabelerInUseNever(label_index_name) == FALSE

\* A name counted as in use only while its Labeler has not run done().
LabelerInUseWhileOpen(label_index_name) ==
    \E i \in DOMAIN labelerObjs : /\ labelerObjs[i].name = label_index_name
                                  /\ ~labelerObjs[i].is_done

\* `label_index_name in self._labelers`, the test that opens get_labeler.
LabelerInUse(label_index_name) ==
    \E i \in DOMAIN labelers : labelers[i] = label_index_name

AddLabels(n, ls, d, a, rpc) ==
    LET out == add_labels(n, ls, d, a, rpc)
    IN /\ label_indices' = out.label_indices
       /\ created_indices' = out.created_indices
       /\ remote_labels' = out.remote_labels
       /\ last' = Call("add_labels", n, 0, out.result, out.calls, "none")
       /\ UNCHANGED <<client, labelers, labelerObjs, thrVars, proxyVars, evtVars>>

GetLabelIndex(n, a, rpc) ==
    LET out == get_label_index(n, a, rpc)
    IN /\ label_indices' = out.label_indices
       /\ last' = Call("get_label_index", n, 0, out.result, out.calls, "none")
       /\ UNCHANGED <<client, labelers, labelerObjs, created_indices, remote_labels,
                      thrVars, proxyVars, evtVars>>

\* Document.get_labeler: how it ends, and the fields it leaves.
get_labeler(label_index_name, distinct, label_adapter) ==
    IF LabelerInUse(label_index_name)
    THEN [result |-> "KeyError", labelers |-> labelers, labelerObjs |-> labelerObjs]
    ELSE IF BothSupplied(distinct, label_adapter)
    THEN [result |-> "ValueError", labelers |-> labelers,
          labelerObjs |-> labelerObjs]
    ELSE [result |-> "ok", labelers |-> Append(labelers, label_index_name),
          labelerObjs |-> Append(labelerObjs,
                              NewLabeler(label_index_name,
                                         ResolveAdapter(distinct, label_adapter)))]

GetLabeler(n, d, a) ==
    /\ LET out == get_labeler(n, d, a)
       IN /\ labelers' = out.labelers
          /\ labelerObjs' = out.labelerObjs
          /\ last' = Call("get_labeler", n,
                          IF out.result = "ok" THEN Len(out.labelerObjs) ELSE 0,
                          out.result, <<>>, "none")
    /\ UNCHANGED <<client, label_indices, created_indices, remote_labels,
                   thrVars, proxyVars, evtVars>>

(***************************************************************************)
(* Labeler.                                                                *)
(***************************************************************************)
\* Labeler.__call__: the adapter's create_label, then the append.
Create(i, l) ==
    /\ Len(labelerObjs[i].current_labels) < MaxStaged
    /\ labelerObjs' = [labelerObjs EXCEPT ![i].current_labels = Append(@, l)]
    /\ last' = Call("create", labelerObjs[i].name, i, "ok", <<>>, "none")
    /\ UNCHANGED <<client, label_indices, labelers, created_indices, remote_labels,
                   thrVars, proxyVars, evtVars>>

AlreadyDoneNever(i) == FALSE

\* `if self.is_done: return`
AlreadyDone(i) == labelerObjs[i].is_done

IsDoneAfterOnlyIfCommitted(result) == result = "ok"

\* `self.is_done = True` stands before the add_labels call, so the flag is set
\* however that call ends.
IsDoneAfter(result) == TRUE

\* Labeler.done, the lock held from its first to its last statement.
done(i, rpc, op, exc) ==
    IF AlreadyDone(i)
    THEN /\ last' = Call(op, labelerObjs[i].name, i, "ok", <<>>, exc)
         /\ UNCHANGED <<client, label_indices, labelers, created_indices,
                        labelerObjs, remote_labels>>
    ELSE LET out == add_labels(labelerObjs[i].name, labelerObjs[i].current_labels,
                               "none", labelerObjs[i].adapter, rpc)
         IN /\ labelerObjs' = [labelerObjs EXCEPT
                                   ![i].is_done = IsDoneAfter(out.result),
                                   ![i].commits = @ + 1]
            /\ label_indices' = out.label_indices
            /\ created_indices' = out.created_indices
            /\ remote_labels' = out.remote_labels
            /\ last' = Call(op, labelerObjs[i].name, i, out.result, out.calls, exc)
            /\ UNCHANGED <<client, labelers>>

Done(i, rpc) ==
    /\ done(i, rpc, "done", "none")
    /\ UNCHANGED <<thrVars, proxyVars, evtVars>>

ExitRunsDoneUnlessCancelled(exc) == exc # "cancel"

\* `if exc_type is not None: return False`, else done() runs.
ExitRunsDone(exc) == exc = "none"

\* Labeler.__exit__ at the end of a `with` block; exc is how the block ended.
Exit(i, exc, rpc) ==
    /\ IF ExitRunsDone(exc)
       THEN done(i, rpc, "exit", exc)
       ELSE /\ last' = Call("exit", labelerObjs[i].name, i, "propagated", <<>>, exc)
            /\ UNCHANGED <<client, label_indices, labelers, created_indices,
                           labelerObjs, remote_labels>>
    /\ UNCHANGED <<thrVars, proxyVars, evtVars>>

\* Another client of the same events service adds a label index.
OtherClientAddLabels(n, ls, dist) ==
    /\ client
    /\ ~remote_labels[n].present
    /\ remote_labels' = [remote_labels EXCEPT ![n] =
                             [present |-> TRUE, labels |-> sorted(ls),
                              distinct |-> dist]]
    /\ last' = Call("other_client", n, 0, "ok", <<>>, "none")
    /\ UNCHANGED <<client, label_indices, labelers, created_indices, labelerObjs,
                   thrVars, proxyVars, evtVars>>

BlockExits == {"none", "error", "cancel"}

\* The lazily created attributes of an Event.
Kinds == {"documents", "metadata", "binaries"}
\* Two Event objects opened on the same event of the service.
Handles == {1, 2}
\* Document names, and the texts of documents.
DocNames == {"d1", "d2"}
\* Texts: a str, the empty one included.
Texts == {"", "t1"}
\* Python's None.
None == "None"

EvtCall(op, handle, doc, name, result, ret, calls) ==
    [op |-> op, handle |-> handle, doc |-> doc, name |-> name, result |-> result,
     ret |-> ret, calls |-> calls]

NoEvtCall == EvtCall("init", 0, 0, "d1", "ok", None, <<>>)

\* A thread that is in no call.
NoLocals == [op |-> "none"]

EvtIdle ==
    /\ tl = [t \in 1..NThreads |-> NoLocals]
    /\ e_proxy = [k \in Kinds |-> 0]
    /\ e_made = [k \in Kinds |-> 0]
    /\ open_requests = 0
    /\ close_requests = 0
    /\ ev_documents = [h \in Handles |-> [n \in DocNames |-> 0]]
    /\ documentObjs = <<>>
    /\ r_documents = [n \in DocNames |-> Absent]
    /\ elast = NoEvtCall

NoCall == Call("init", "one", 0, "ok", <<>>, "none")

DocInit ==
    /\ client \in BOOLEAN
    /\ label_indices = [n \in IndexNames |-> NoIndex]
    /\ labelers = <<>>
    /\ created_indices = <<>>
    /\ labelerObjs = <<>>
    /\ remote_labels = [n \in IndexNames |-> NoIndex]
    /\ last = NoCall

ThrIdle ==
    /\ pc = [t \in 1..NThreads |-> "idle"]
    /\ lock = 0

ProxyIdle ==
    /\ ev_client = FALSE
    /\ metadata = [k \in Keys |-> Absent]
    /\ r_metadata = [k \in Keys |-> Absent]
    /\ bin_names = {}
    /\ binaries = [k \in Keys |-> Absent]
    /\ r_binaries = [k \in Keys |-> Absent]
    /\ plast = NoProxyCall

Init == DocInit /\ ThrIdle /\ ProxyIdle /\ EvtIdle

Next ==
    \/ \E n \in IndexNames, ls \in LabelLists, d \in DistinctArgs,
          a \in AdapterArgs, rpc \in RpcChoices(client) : AddLabels(n, ls, d, a, rpc)
    \/ \E n \in IndexNames, a \in AdapterArgs, rpc \in RpcChoices(client) :
           GetLabelIndex(n, a, rpc)
    \/ \E n \in IndexNames, d \in DistinctArgs, a \in AdapterArgs :
           GetLabeler(n, d, a)
    \/ \E i \in DOMAIN labelerObjs, l \in LabelUniverse : Create(i, l)
    \/ \E i \in DOMAIN labelerObjs, rpc \in RpcChoices(client) : Done(i, rpc)
    \/ \E i \in DOMAIN labelerObjs, exc \in BlockExits, rpc \in RpcChoices(client) :
           Exit(i, exc, rpc)
    \/ \E n \in IndexNames, ls \in OtherClientLists, dist \in BOOLEAN :
           OtherClientAddLabels(n, ls, dist)

Spec == Init /\ [][Next]_vars

(***************************************************************************)
(* SpecSort: one Document, labels committed in any order. The labels       *)
(* differ in start_index as well as in end_index.                          *)
(***************************************************************************)
SortUniverse == {Span(0, 1), Span(0, 2), Span(1, 2)}

SortLists == SeqsUpTo(SortUniverse, MaxSort)

\* The list of labels the caller holds.
CallerLabels == tl[1].labels

\* The caller stages the next label of its list on a Labeler.
StageNext(i) ==
    /\ Len(labelerObjs[i].current_labels) < Len(CallerLabels)
    /\ Create(i, CallerLabels[Len(labelerObjs[i].current_labels) + 1])

\* A Document, and a caller holding a list of labels in some order.
SortInit ==
    /\ DocInit
    /\ ThrIdle
    /\ ProxyIdle
    /\ \E ls \in SortLists : tl = [t \in 1..NThreads |-> [labels |-> ls]]
    /\ e_proxy = [k \in Kinds |-> 0]
    /\ e_made = [k \in Kinds |-> 0]
    /\ open_requests = 0
    /\ close_requests = 0
    /\ ev_documents = [h \in Handles |-> [n \in DocNames |-> 0]]
    /\ documentObjs = <<>>
    /\ r_documents = [n \in DocNames |-> Absent]
    /\ elast = NoEvtCall

SortNext ==
    \/ \E n \in IndexNames, d \in DistinctArgs, a \in AdapterArgs,
          rpc \in RpcChoices(client) : AddLabels(n, CallerLabels, d, a, rpc)
    \/ \E n \in IndexNames, d \in DistinctArgs, a \in AdapterArgs :
           GetLabeler(n, d, a)
    \/ \E i \in DOMAIN labelerObjs : StageNext(i)
    \/ \E i \in DOMAIN labelerObjs, rpc \in RpcChoices(client) : Done(i, rpc)

SpecSort == SortInit /\ [][SortNext]_vars

(***************************************************************************)
(* SpecDone: threads in Labeler.done of one Labeler, a statement per step. *)
(***************************************************************************)
Threads == 1..NThreads

LockFreeAlways(t) == TRUE

\* threading.Lock: `with self._lock` enters only while no thread holds it.
LockFree(t) == lock = 0

\* A thread calls labeler.done().
ThreadCall(t) ==
    /\ pc[t] = "idle"
    /\ pc' = [pc EXCEPT ![t] = "acquire"]
    /\ UNCHANGED <<docVars, lock, proxyVars, evtVars>>

\* `with self._lock:`
ThreadAcquire(t) ==
    /\ pc[t] = "acquire"
    /\ LockFree(t)
    /\ lock' = t
    /\ pc' = [pc EXCEPT ![t] = "check"]
    /\ UNCHANGED <<docVars, proxyVars, evtVars>>

\* `if self.is_done: return`, the lock released on the way out.
ThreadCheck(t) ==
    /\ pc[t] = "check"
    /\ IF AlreadyDone(1)
       THEN /\ pc' = [pc EXCEPT ![t] = "idle"]
            /\ lock' = 0
            /\ last' = Call("done", labelerObjs[1].name, 1, "ok", <<>>, "none")
            /\ UNCHANGED <<client, label_indices, labelers, created_indices,
                           labelerObjs, remote_labels>>
       ELSE /\ pc' = [pc EXCEPT ![t] = "set"]
            /\ UNCHANGED <<docVars, lock>>
    /\ UNCHANGED <<proxyVars, evtVars>>

\* `self.is_done = True`
ThreadSet(t) ==
    /\ pc[t] = "set"
    /\ labelerObjs' = [labelerObjs EXCEPT ![1].is_done = TRUE]
    /\ pc' = [pc EXCEPT ![t] = "commit"]
    /\ UNCHANGED <<client, label_indices, labelers, created_indices,
                   remote_labels, last, lock, proxyVars, evtVars>>

\* `self._document.add_labels(...)`; the lock is released when the call
\* returns or raises.
ThreadCommit(t, rpc) ==
    /\ pc[t] = "commit"
    /\ LET out == add_labels(labelerObjs[1].name, labelerObjs[1].current_labels,
                             "none", labelerObjs[1].adapter, rpc)
       IN /\ labelerObjs' = [labelerObjs EXCEPT ![1].commits = @ + 1]
          /\ label_indices' = out.label_indices
          /\ created_indices' = out.created_indices
          /\ remote_labels' = out.remote_labels
          /\ last' = Call("done", labelerObjs[1].name, 1, out.result, out.calls, "none")
    /\ pc' = [pc EXCEPT ![t] = "idle"]
    /\ lock' = 0
    /\ UNCHANGED <<client, labelers, proxyVars, evtVars>>

\* One Labeler, obtained by get_labeler and holding what was staged.
DoneInit ==
    /\ client \in BOOLEAN
    /\ label_indices = [n \in IndexNames |-> NoIndex]
    /\ labelers = <<"one">>
    /\ created_indices = <<>>
    /\ \E a \in {"generic", "distinct"}, ls \in LabelLists :
           labelerObjs = <<[NewLabeler("one", a) EXCEPT !.current_labels = ls]>>
    /\ remote_labels = [n \in IndexNames |-> NoIndex]
    /\ last = NoCall
    /\ ThrIdle
    /\ ProxyIdle
    /\ EvtIdle

DoneNext ==
    \/ \E t \in Threads : ThreadCall(t)
    \/ \E t \in Threads : ThreadAcquire(t)
    \/ \E t \in Threads : ThreadCheck(t)
    \/ \E t \in Threads : ThreadSet(t)
    \/ \E t \in Threads, rpc \in RpcChoices(client) : ThreadCommit(t, rpc)

SpecDone == DoneInit /\ [][DoneNext]_vars

(***************************************************************************)
(* SpecMeta: the _Metadata proxy of one Event.                             *)
(***************************************************************************)
DocIdle ==
    /\ client = FALSE
    /\ label_indices = [n \in IndexNames |-> NoIndex]
    /\ labelers = <<>>
    /\ created_indices = <<>>
    /\ labelerObjs = <<>>
    /\ remote_labels = [n \in IndexNames |-> NoIndex]
    /\ last = NoCall

\* How a proxy method's inner call ended: raised, the mapping it left, the
\* requests it sent.
Inner(raised, map, calls) == [raised |-> raised, map |-> map, calls |-> calls]

\* dict.update(response): every key of the response is written.
dict_update(map, response) ==
    [k \in Keys |-> IF response[k] # Absent THEN response[k] ELSE map[k]]

\* _Metadata._refresh_metadata
refresh_metadata(map, rpc) ==
    IF ~ev_client THEN Inner(FALSE, map, <<>>)
    ELSE IF rpc # "ok" THEN Inner(TRUE, map, <<"GetAllMetadata">>)
    ELSE Inner(FALSE, dict_update(map, r_metadata), <<"GetAllMetadata">>)

\* _Metadata.__contains__
MetaContains(key, rpc) ==
    /\ IF metadata[key] # Absent
       THEN /\ plast' = ProxyCall("metadata", "contains", key, "none", "ok", "true",
                                  {}, <<>>)
            /\ UNCHANGED metadata
       ELSE LET r == refresh_metadata(metadata, rpc)
            IN /\ metadata' = r.map
               /\ plast' = ProxyCall("metadata", "contains", key, "none",
                               IF r.raised THEN "RpcError" ELSE "ok",
                               IF r.raised THEN "none"
                               ELSE IF r.map[key] # Absent THEN "true" ELSE "false",
                               {}, r.calls)
    /\ UNCHANGED <<docVars, thrVars, evtVars, ev_client, r_metadata, binVars>>

\* _Metadata.__setitem__: `key in self`, the local write, then the request.
\* (add_metadata returns `response is not None`, which a stub's reply always
\* is, so the request either returns or raises.)
MetaSet(key, value, rpc1, rpc2) ==
    /\ IF metadata[key] # Absent
       THEN /\ plast' = ProxyCall("metadata", "set", key, value, "KeyError", "none",
                                  {}, <<>>)
            /\ UNCHANGED <<metadata, r_metadata>>
       ELSE LET r == refresh_metadata(metadata, rpc1)
            IN IF r.raised
               THEN /\ plast' = ProxyCall("metadata", "set", key, value, "RpcError",
                                          "none", {}, r.calls)
                    /\ UNCHANGED <<metadata, r_metadata>>
               ELSE IF r.map[key] # Absent
               THEN /\ plast' = ProxyCall("metadata", "set", key, value, "KeyError",
                                          "none", {}, r.calls)
                    /\ metadata' = r.map
                    /\ UNCHANGED r_metadata
               ELSE /\ metadata' = [r.map EXCEPT ![key] = value]
                    /\ IF ~ev_client
                       THEN /\ plast' = ProxyCall("metadata", "set", key, value, "ok",
                                                  "none", {}, r.calls)
                            /\ UNCHANGED r_metadata
                       ELSE IF rpc2 # "ok"
                       THEN /\ plast' = ProxyCall("metadata", "set", key, value,
                                            "RpcError", "none", {},
                                            Append(r.calls, "AddMetadata"))
                            /\ UNCHANGED r_metadata
                       ELSE /\ plast' = ProxyCall("metadata", "set", key, value, "ok",
                                            "none", {}, Append(r.calls, "AddMetadata"))
                            /\ r_metadata' = [r_metadata EXCEPT ![key] = value]
    /\ UNCHANGED <<docVars, thrVars, evtVars, ev_client, binVars>>

MetaCachedNever(key) == FALSE

\* `try: return self._metadata[key]`: the key is in the cache.
MetaCached(key) == metadata[key] # Absent

\* _Metadata.__getitem__
MetaGet(key, rpc) ==
    /\ IF MetaCached(key)
       THEN /\ plast' = ProxyCall("metadata", "get", key, "none", "ok", metadata[key],
                                  {}, <<>>)
            /\ UNCHANGED metadata
       ELSE LET r == refresh_metadata(metadata, rpc)
            IN /\ metadata' = r.map
               /\ plast' = ProxyCall("metadata", "get", key, "none",
                               IF r.raised THEN "RpcError"
                               ELSE IF r.map[key] = Absent THEN "KeyError" ELSE "ok",
                               IF r.raised THEN "none" ELSE r.map[key],
                               {}, r.calls)
    /\ UNCHANGED <<docVars, thrVars, evtVars, ev_client, r_metadata, binVars>>

\* _Metadata.__iter__ and _Metadata.__len__
MetaIter(rpc) ==
    /\ LET r == refresh_metadata(metadata, rpc)
       IN /\ metadata' = r.map
          /\ plast' = ProxyCall("metadata", "iter", "k1", "none",
                          IF r.raised THEN "RpcError" ELSE "ok", "none",
                          IF r.raised THEN {} ELSE {k \in Keys : r.map[k] # Absent},
                          r.calls)
    /\ UNCHANGED <<docVars, thrVars, evtVars, ev_client, r_metadata, binVars>>

\* _Metadata.__delitem__
MetaDel(key) ==
    /\ plast' = ProxyCall("metadata", "del", key, "none", "NotImplementedError",
                          "none", {}, <<>>)
    /\ UNCHANGED <<docVars, thrVars, evtVars, ev_client, metaVars, binVars>>

\* Another client of the same events service adds a metadata entry.
OtherClientAddMetadata(key, value) ==
    /\ ev_client
    /\ r_metadata[key] = Absent
    /\ r_metadata' = [r_metadata EXCEPT ![key] = value]
    /\ plast' = ProxyCall("metadata", "other_client", key, value, "ok", "none", {},
                          <<>>)
    /\ UNCHANGED <<docVars, thrVars, evtVars, ev_client, metadata, binVars>>

ProxyInit ==
    /\ ev_client \in BOOLEAN
    /\ metadata = [k \in Keys |-> Absent]
    /\ r_metadata = [k \in Keys |-> Absent]
    /\ bin_names = {}
    /\ binaries = [k \in Keys |-> Absent]
    /\ r_binaries = [k \in Keys |-> Absent]
    /\ plast = NoProxyCall
    /\ DocIdle
    /\ ThrIdle
    /\ EvtIdle

MetaNext ==
    \/ \E k \in Keys, rpc \in RpcChoices(ev_client) : MetaContains(k, rpc)
    \/ \E k \in Keys, v \in Values, rpc1, rpc2 \in RpcChoices(ev_client) :
           MetaSet(k, v, rpc1, rpc2)
    \/ \E k \in Keys, rpc \in RpcChoices(ev_client) : MetaGet(k, rpc)
    \/ \E rpc \in RpcChoices(ev_client) : MetaIter(rpc)
    \/ \E k \in Keys : MetaDel(k)
    \/ \E k \in Keys, v \in Values : OtherClientAddMetadata(k, v)

SpecMeta == ProxyInit /\ [][MetaNext]_vars

(***************************************************************************)
(* SpecBin: the _Binaries proxy of one Event.                              *)
(***************************************************************************)
\* _Binaries._refresh_binaries: set.update with the names the service lists.
refresh_binaries(names, rpc) ==
    IF ~ev_client THEN Inner(FALSE, names, <<>>)
    ELSE IF rpc # "ok" THEN Inner(TRUE, names, <<"GetAllBinaryDataNames">>)
    ELSE Inner(FALSE, names \cup {k \in Keys : r_binaries[k] # Absent},
               <<"GetAllBinaryDataNames">>)

\* _Binaries.__contains__
BinContains(key, rpc) ==
    /\ IF key \in bin_names
       THEN /\ plast' = ProxyCall("binaries", "contains", key, "none", "ok", "true",
                                  {}, <<>>)
            /\ UNCHANGED bin_names
       ELSE LET r == refresh_binaries(bin_names, rpc)
            IN /\ bin_names' = r.map
               /\ plast' = ProxyCall("binaries", "contains", key, "none",
                               IF r.raised THEN "RpcError" ELSE "ok",
                               IF r.raised THEN "none"
                               ELSE IF key \in r.map THEN "true" ELSE "false",
                               {}, r.calls)
    /\ UNCHANGED <<docVars, thrVars, evtVars, ev_client, binaries, r_binaries, metaVars>>

\* _Binaries.__setitem__: `key in self`, the local writes, then the request.
BinSet(key, value, rpc1, rpc2) ==
    /\ IF key \in bin_names
       THEN /\ plast' = ProxyCall("binaries", "set", key, value, "KeyError", "none",
                                  {}, <<>>)
            /\ UNCHANGED <<bin_names, binaries, r_binaries>>
       ELSE LET r == refresh_binaries(bin_names, rpc1)
            IN IF r.raised
               THEN /\ plast' = ProxyCall("binaries", "set", key, value, "RpcError",
                                          "none", {}, r.calls)
                    /\ UNCHANGED <<bin_names, binaries, r_binaries>>
               ELSE IF key \in r.map
               THEN /\ plast' = ProxyCall("binaries", "set", key, value, "KeyError",
                                          "none", {}, r.calls)
                    /\ bin_names' = r.map
                    /\ UNCHANGED <<binaries, r_binaries>>
               ELSE /\ bin_names' = r.map \cup {key}
                    /\ binaries' = [binaries EXCEPT ![key] = value]
                    /\ IF ~ev_client
                       THEN /\ plast' = ProxyCall("binaries", "set", key, value, "ok",
                                                  "none", {}, r.calls)
                            /\ UNCHANGED r_binaries
                       ELSE IF rpc2 # "ok"
                       THEN /\ plast' = ProxyCall("binaries", "set", key, value,
                                            "RpcError", "none", {},
                                            Append(r.calls, "AddBinaryData"))
                            /\ UNCHANGED r_binaries
                       ELSE /\ plast' = ProxyCall("binaries", "set", key, value, "ok",
                                            "none", {},
                                            Append(r.calls, "AddBinaryData"))
                            /\ r_binaries' = [r_binaries EXCEPT ![key] = value]
    /\ UNCHANGED <<docVars, thrVars, evtVars, ev_client, metaVars>>

\* `self._names.add(b)` in _Binaries.__getitem__: what joins the names.
FetchedName(key, b) == b

\* _Binaries.__getitem__: the cache, else one GetBinaryData request; the
\* service has no reply for a name it does not hold.
BinGet(key, rpc) ==
    /\ IF binaries[key] # Absent
       THEN /\ plast' = ProxyCall("binaries", "get", key, "none", "ok", binaries[key],
                                  {}, <<>>)
            /\ UNCHANGED <<bin_names, binaries>>
       ELSE IF ~ev_client
       THEN /\ plast' = ProxyCall("binaries", "get", key, "none", "KeyError", "none",
                                  {}, <<>>)
            /\ UNCHANGED <<bin_names, binaries>>
       ELSE IF rpc # "ok" \/ r_binaries[key] = Absent
       THEN /\ plast' = ProxyCall("binaries", "get", key, "none", "RpcError", "none",
                                  {}, <<"GetBinaryData">>)
            /\ UNCHANGED <<bin_names, binaries>>
       ELSE /\ bin_names' = bin_names \cup {FetchedName(key, r_binaries[key])}
            /\ binaries' = [binaries EXCEPT ![key] = r_binaries[key]]
            /\ plast' = ProxyCall("binaries", "get", key, "none", "ok",
                                  r_binaries[key], {}, <<"GetBinaryData">>)
    /\ UNCHANGED <<docVars, thrVars, evtVars, ev_client, r_binaries, metaVars>>

\* _Binaries.__iter__ and _Binaries.__len__
BinIter(rpc) ==
    /\ LET r == refresh_binaries(bin_names, rpc)
       IN /\ bin_names' = r.map
          /\ plast' = ProxyCall("binaries", "iter", "k1", "none",
                          IF r.raised THEN "RpcError" ELSE "ok", "none",
                          IF r.raised THEN {} ELSE r.map, r.calls)
    /\ UNCHANGED <<docVars, thrVars, evtVars, ev_client, binaries, r_binaries, metaVars>>

\* _Binaries.__delitem__
BinDel(key) ==
    /\ plast' = ProxyCall("binaries", "del", key, "none", "NotImplementedError",
                          "none", {}, <<>>)
    /\ UNCHANGED <<docVars, thrVars, evtVars, ev_client, metaVars, binVars>>

\* Another client of the same events service adds a binary.
OtherClientAddBinary(key, value) ==
    /\ ev_client
    /\ r_binaries[key] = Absent
    /\ r_binaries' = [r_binaries EXCEPT ![key] = value]
    /\ plast' = ProxyCall("binaries", "other_client", key, value, "ok", "none", {},
                          <<>>)
    /\ UNCHANGED <<docVars, thrVars, evtVars, ev_client, bin_names, binaries, metaVars>>

BinNext ==
    \/ \E k \in Keys, rpc \in RpcChoices(ev_client) : BinContains(k, rpc)
    \/ \E k \in Keys, v \in Values, rpc1, rpc2 \in RpcChoices(ev_client) :
           BinSet(k, v, rpc1, rpc2)
    \/ \E k \in Keys, rpc \in RpcChoices(ev_client) : BinGet(k, rpc)
    \/ \E rpc \in RpcChoices(ev_client) : BinIter(rpc)
    \/ \E k \in Keys : BinDel(k)
    \/ \E k \in Keys, v \in Values : OtherClientAddBinary(k, v)

SpecBin == ProxyInit /\ [][BinNext]_vars

(***************************************************************************)
(* SpecEvent: one Event, its lease on the service and its lazily created   *)
(* proxies, calls made one at a time.                                      *)
(* SpecAccess: several threads reading the Event's proxy attributes, one   *)
(* statement of the property per step.                                     *)
(***************************************************************************)
\* What an OpenEvent request can do: succeed, be refused because the event
\* exists, or fail in transport.
OpenOutcomes == {"ok", "ALREADY_EXISTS", "RpcError"}

\* EventsClient.open_event: only the ALREADY_EXISTS status is raised again.
open_event(rpc) == IF rpc = "ALREADY_EXISTS" THEN "ValueError" ELSE "ok"

\* EventsClient.close_event
close_event(rpc) == IF rpc = "ok" THEN "ok" ELSE "RpcError"

\* Event.close: `if self.client is not None: self.release_lease()`, with no
\* record kept of an earlier close. op is the caller: close(), or the end of a
\* `with` block (Event.__exit__).
close(op, rpc) ==
    IF ev_client
    THEN /\ close_requests' = close_requests + 1
         /\ elast' = EvtCall(op, 1, 0, "d1", close_event(rpc), None, <<"CloseEvent">>)
    ELSE /\ elast' = EvtCall(op, 1, 0, "d1", "ok", None, <<>>)
         /\ UNCHANGED close_requests

Close(rpc) ==
    /\ close_requests < MaxRequests
    /\ close("close", rpc)
    /\ UNCHANGED <<docVars, thrVars, proxyVars, tl, e_proxy, e_made, open_requests,
                   ev_documents, documentObjs, r_documents>>

\* Event.__exit__: close(), however the block ended.
EventExit(exc, rpc) ==
    /\ close_requests < MaxRequests
    /\ close("exit", rpc)
    /\ UNCHANGED <<docVars, thrVars, proxyVars, tl, e_proxy, e_made, open_requests,
                   ev_documents, documentObjs, r_documents>>

\* Event.release_lease
ReleaseLease(rpc) ==
    /\ close_requests < MaxRequests
    /\ IF ev_client
       THEN /\ close_requests' = close_requests + 1
            /\ elast' = EvtCall("release_lease", 1, 0, "d1", close_event(rpc), None,
                                <<"CloseEvent">>)
       ELSE /\ elast' = EvtCall("release_lease", 1, 0, "d1", "ok", None, <<>>)
            /\ UNCHANGED close_requests
    /\ UNCHANGED <<docVars, thrVars, proxyVars, tl, e_proxy, e_made, open_requests,
                   ev_documents, documentObjs, r_documents>>

\* Event.lease
Lease(rpc) ==
    /\ open_requests < MaxRequests
    /\ IF ev_client
       THEN /\ open_requests' = open_requests + 1
            /\ elast' = EvtCall("lease", 1, 0, "d1", open_event(rpc), None,
                                <<"OpenEvent">>)
       ELSE /\ elast' = EvtCall("lease", 1, 0, "d1", "ok", None, <<>>)
            /\ UNCHANGED open_requests
    /\ UNCHANGED <<docVars, thrVars, proxyVars, tl, e_proxy, e_made, close_requests,
                   ev_documents, documentObjs, r_documents>>

\* Event.__init__ of a further Event object on the same event id: with a
\* client, `client.open_event(self._event_id, only_create_new=...)`. rpc is
\* what the OpenEvent request does; the service answers ALREADY_EXISTS only to
\* a request made with only_create_new.
NewEvent(only_create_new, rpc) ==
    /\ open_requests < MaxRequests
    /\ rpc = "ALREADY_EXISTS" => only_create_new
    /\ IF ev_client
       THEN /\ open_requests' = open_requests + 1
            /\ elast' = EvtCall("construct", 2, 0, "d1", open_event(rpc),
                                IF open_event(rpc) = "ok" THEN "Event" ELSE None,
                                <<"OpenEvent">>)
       ELSE /\ elast' = EvtCall("construct", 2, 0, "d1", "ok", "Event", <<>>)
            /\ UNCHANGED open_requests
    /\ UNCHANGED <<docVars, thrVars, proxyVars, tl, e_proxy, e_made, close_requests,
                   ev_documents, documentObjs, r_documents>>

\* Event.documents, Event.metadata, Event.binaries, read by one caller.
Access(k) ==
    /\ IF e_proxy[k] # 0
       THEN UNCHANGED <<e_proxy, e_made>>
       ELSE /\ e_made' = [e_made EXCEPT ![k] = @ + 1]
            /\ e_proxy' = [e_proxy EXCEPT ![k] = e_made[k] + 1]
    /\ elast' = EvtCall(k, 1, 0, "d1", "ok", e_proxy'[k], <<>>)
    /\ UNCHANGED <<docVars, thrVars, proxyVars, tl, open_requests, close_requests,
                   ev_documents, documentObjs, r_documents>>

\* A thread reads the attribute the threads contend for: event.documents,
\* event.metadata or event.binaries.
AccessCall(t) ==
    /\ pc[t] = "idle"
    /\ pc' = [pc EXCEPT ![t] = "try"]
    /\ tl' = [tl EXCEPT ![t].made = 0, ![t].held = 0]
    /\ UNCHANGED <<docVars, lock, proxyVars, e_proxy, e_made, open_requests,
                   close_requests, ev_documents, documentObjs, r_documents, elast>>

\* `try: return self._metadata` / `except AttributeError:`
AccessTry(t) ==
    /\ pc[t] = "try"
    /\ IF e_proxy[tl[t].kind] # 0
       THEN /\ tl' = [tl EXCEPT ![t].held = e_proxy[tl[t].kind]]
            /\ pc' = [pc EXCEPT ![t] = "idle"]
       ELSE /\ pc' = [pc EXCEPT ![t] = "construct"]
            /\ UNCHANGED tl
    /\ UNCHANGED <<docVars, lock, proxyVars, e_proxy, e_made, open_requests,
                   close_requests, ev_documents, documentObjs, r_documents, elast>>

\* `_Metadata(self, self.client)`: a new proxy object.
AccessConstruct(t) ==
    /\ pc[t] = "construct"
    /\ e_made' = [e_made EXCEPT ![tl[t].kind] = @ + 1]
    /\ tl' = [tl EXCEPT ![t].made = e_made[tl[t].kind] + 1]
    /\ pc' = [pc EXCEPT ![t] = "assign"]
    /\ UNCHANGED <<docVars, lock, proxyVars, e_proxy, open_requests,
                   close_requests, ev_documents, documentObjs, r_documents, elast>>

\* `self._metadata = ...`
AccessAssign(t) ==
    /\ pc[t] = "assign"
    /\ e_proxy' = [e_proxy EXCEPT ![tl[t].kind] = tl[t].made]
    /\ pc' = [pc EXCEPT ![t] = "return"]
    /\ UNCHANGED <<docVars, lock, proxyVars, tl, e_made, open_requests,
                   close_requests, ev_documents, documentObjs, r_documents, elast>>

\* `return self._metadata`: the attribute is read again.
AccessReturn(t) ==
    /\ pc[t] = "return"
    /\ tl' = [tl EXCEPT ![t].held = e_proxy[tl[t].kind]]
    /\ pc' = [pc EXCEPT ![t] = "idle"]
    /\ UNCHANGED <<docVars, lock, proxyVars, e_proxy, e_made, open_requests,
                   close_requests, ev_documents, documentObjs, r_documents, elast>>

\* Event.__init__: with a client, one OpenEvent request; no proxy exists yet.
EventInit ==
    /\ ev_client \in BOOLEAN
    /\ open_requests = (IF ev_client THEN 1 ELSE 0)
    /\ close_requests = 0
    /\ e_proxy = [k \in Kinds |-> 0]
    /\ e_made = [k \in Kinds |-> 0]
    /\ \E k \in Kinds : tl = [t \in Threads |-> [kind |-> k, made |-> 0, held |-> 0]]
    /\ elast = NoEvtCall
    /\ ev_documents = [h \in Handles |-> [n \in DocNames |-> 0]]
    /\ documentObjs = <<>>
    /\ r_documents = [n \in DocNames |-> Absent]
    /\ metadata = [k \in Keys |-> Absent]
    /\ r_metadata = [k \in Keys |-> Absent]
    /\ bin_names = {}
    /\ binaries = [k \in Keys |-> Absent]
    /\ r_binaries = [k \in Keys |-> Absent]
    /\ plast = NoProxyCall
    /\ DocIdle
    /\ ThrIdle

EventNext ==
    \/ \E rpc \in RpcChoices(ev_client) : Close(rpc)
    \/ \E exc \in BlockExits, rpc \in RpcChoices(ev_client) : EventExit(exc, rpc)
    \/ \E rpc \in RpcChoices(ev_client) : ReleaseLease(rpc)
    \/ \E rpc \in (IF ev_client THEN OpenOutcomes ELSE {"ok"}) : Lease(rpc)
    \/ \E k \in Kinds : Access(k)
    \/ \E o \in BOOLEAN, rpc \in (IF ev_client THEN OpenOutcomes ELSE {"ok"}) :
           NewEvent(o, rpc)

SpecEvent == EventInit /\ [][EventNext]_vars

AccessNext ==
    \/ \E t \in Threads : AccessCall(t)
    \/ \E t \in Threads : AccessTry(t)
    \/ \E t \in Threads : AccessConstruct(t)
    \/ \E t \in Threads : AccessAssign(t)
    \/ \E t \in Threads : AccessReturn(t)

SpecAccess == EventInit /\ [][AccessNext]_vars

(***************************************************************************)
(* SpecSet: several threads in __setitem__ of one proxy of an Event,       *)
(* _Metadata or _Binaries, one statement of the method per step.           *)
(***************************************************************************)
\* A thread calls proxy[key] = value.
SetCall(t, key, value) ==
    /\ pc[t] = "idle"
    /\ pc' = [pc EXCEPT ![t] = "check"]
    /\ tl' = [tl EXCEPT ![t].key = key, ![t].value = value, ![t].result = "none",
                        ![t].calls = <<>>]
    /\ UNCHANGED <<docVars, lock, proxyVars, e_proxy, e_made, open_requests,
                   close_requests, ev_documents, documentObjs, r_documents, elast>>

\* `if key in self: raise KeyError(...)`: __contains__, with its refresh.
SetCheck(t, rpc) ==
    /\ pc[t] = "check"
    /\ LET key == tl[t].key
           meta == tl[t].proxy = "metadata"
           held == IF meta THEN metadata[key] # Absent ELSE key \in bin_names
           r == IF meta THEN refresh_metadata(metadata, rpc)
                ELSE refresh_binaries(bin_names, rpc)
           found == IF meta THEN r.map[key] # Absent ELSE key \in r.map
       IN IF held
          THEN /\ tl' = [tl EXCEPT ![t].result = "KeyError"]
               /\ pc' = [pc EXCEPT ![t] = "idle"]
               /\ UNCHANGED <<metadata, bin_names>>
          ELSE /\ IF meta THEN metadata' = r.map /\ UNCHANGED bin_names
                  ELSE bin_names' = r.map /\ UNCHANGED metadata
               /\ tl' = [tl EXCEPT ![t].calls = r.calls,
                                   ![t].result = IF r.raised THEN "RpcError"
                                                 ELSE IF found THEN "KeyError"
                                                 ELSE "none"]
               /\ pc' = [pc EXCEPT ![t] = IF r.raised \/ found THEN "idle"
                                          ELSE "write"]
    /\ UNCHANGED <<docVars, lock, ev_client, r_metadata, binaries, r_binaries, plast,
                   e_proxy, e_made, open_requests, close_requests, ev_documents,
                   documentObjs, r_documents, elast>>

\* `self._metadata[key] = value`; for binaries `self._names.add(key)` and
\* `self._binaries[key] = value`.
SetWrite(t) ==
    /\ pc[t] = "write"
    /\ IF tl[t].proxy = "metadata"
       THEN /\ metadata' = [metadata EXCEPT ![tl[t].key] = tl[t].value]
            /\ UNCHANGED <<bin_names, binaries>>
       ELSE /\ bin_names' = bin_names \cup {tl[t].key}
            /\ binaries' = [binaries EXCEPT ![tl[t].key] = tl[t].value]
            /\ UNCHANGED metadata
    /\ pc' = [pc EXCEPT ![t] = "send"]
    /\ UNCHANGED <<docVars, lock, ev_client, r_metadata, r_binaries, plast, evtVars>>

\* `if self._client is not None:` the AddMetadata / AddBinaryData request; the
\* call returns, or raises what the request raised.
SetSend(t, rpc) ==
    /\ pc[t] = "send"
    /\ IF ~ev_client
       THEN /\ tl' = [tl EXCEPT ![t].result = "ok"]
            /\ UNCHANGED <<r_metadata, r_binaries>>
       ELSE /\ tl' = [tl EXCEPT ![t].result = rpc,
                                ![t].calls = Append(@, IF tl[t].proxy = "metadata"
                                                       THEN "AddMetadata"
                                                       ELSE "AddBinaryData")]
            /\ IF rpc # "ok" THEN UNCHANGED <<r_metadata, r_binaries>>
               ELSE IF tl[t].proxy = "metadata"
               THEN /\ r_metadata' = [r_metadata EXCEPT ![tl[t].key] = tl[t].value]
                    /\ UNCHANGED r_binaries
               ELSE /\ r_binaries' = [r_binaries EXCEPT ![tl[t].key] = tl[t].value]
                    /\ UNCHANGED r_metadata
    /\ pc' = [pc EXCEPT ![t] = "idle"]
    /\ UNCHANGED <<docVars, lock, ev_client, metadata, bin_names, binaries, plast,
                   e_proxy, e_made, open_requests, close_requests, ev_documents,
                   documentObjs, r_documents, elast>>

\* One Event with one of its proxies, empty, and threads that are in no call.
SetInit ==
    /\ ev_client \in BOOLEAN
    /\ metadata = [k \in Keys |-> Absent]
    /\ r_metadata = [k \in Keys |-> Absent]
    /\ bin_names = {}
    /\ binaries = [k \in Keys |-> Absent]
    /\ r_binaries = [k \in Keys |-> Absent]
    /\ plast = NoProxyCall
    /\ \E proxy \in {"metadata", "binaries"} :
           tl = [t \in Threads |-> [proxy |-> proxy, key |-> "k1", value |-> "v1",
                                    result |-> "none", calls |-> <<>>]]
    /\ e_proxy = [k \in Kinds |-> 0]
    /\ e_made = [k \in Kinds |-> 0]
    /\ open_requests = 0
    /\ close_requests = 0
    /\ ev_documents = [h \in Handles |-> [n \in DocNames |-> 0]]
    /\ documentObjs = <<>>
    /\ r_documents = [n \in DocNames |-> Absent]
    /\ elast = NoEvtCall
    /\ DocIdle
    /\ ThrIdle

SetNext ==
    \/ \E t \in Threads, k \in Keys, v \in Values : SetCall(t, k, v)
    \/ \E t \in Threads, rpc \in RpcChoices(ev_client) : SetCheck(t, rpc)
    \/ \E t \in Threads : SetWrite(t)
    \/ \E t \in Threads, rpc \in RpcChoices(ev_client) : SetSend(t, rpc)

SpecSet == SetInit /\ [][SetNext]_vars

(***************************************************************************)
(* SpecText: the Documents of one event of the service, reached through    *)
(* two Event objects: their construction, registration, lookup and text.   *)
(***************************************************************************)
\* Document.__init__. Both Event objects stand for one event of one service,
\* so of _event, _event_id and _client a Document is told apart by _client.
NewDocument(name, text, connected) ==
    [name |-> name, text |-> text, client |-> connected]

\* What a _Documents method leaves behind: how it ended, the Document objects,
\* the mapping of the handle, the service's documents, the requests sent.
DocsOutcome(result, objs, map, store, calls) ==
    [result |-> result, objs |-> objs, map |-> map, store |-> store, calls |-> calls]

TextUnsetOrEmpty(doc) == doc.text = None \/ doc.text = ""

\* `self._text is None`
TextUnset(doc) == doc.text = None

\* Document.text of the object doc: the text if it is set or there is no
\* client, else one GetDocumentText request, whose reply is kept. The service
\* has no reply for a document it does not hold.
text(doc, store, rpc) ==
    IF TextUnset(doc) /\ doc.client
    THEN IF rpc # "ok" \/ store[doc.name] = Absent
         THEN [raised |-> TRUE, doc |-> doc, calls |-> <<"GetDocumentText">>]
         ELSE [raised |-> FALSE, doc |-> [doc EXCEPT !.text = store[doc.name]],
               calls |-> <<"GetDocumentText">>]
    ELSE [raised |-> FALSE, doc |-> doc, calls |-> <<>>]

\* The events service's AddDocument: it refuses a name the event holds.
service_add_document(store, name, txt, rpc) ==
    IF rpc # "ok" \/ store[name] # Absent
    THEN [raised |-> TRUE, store |-> store]
    ELSE [raised |-> FALSE, store |-> [store EXCEPT ![name] = txt]]

\* _Documents.__setitem__(k, v) of handle h, v being object d of objs.
documents_setitem(h, k, d, objs, rpc1, rpc2) ==
    LET bound == [objs EXCEPT ![d].client = ev_client]
    IN IF ~ev_client
       THEN DocsOutcome("ok", bound, [ev_documents[h] EXCEPT ![k] = d],
                        r_documents, <<>>)
       ELSE LET t == text(objs[d], r_documents, rpc1)
                read == [objs EXCEPT ![d] = t.doc]
            IN IF t.raised
               THEN DocsOutcome("RpcError", read, ev_documents[h], r_documents,
                                t.calls)
               ELSE LET a == service_add_document(r_documents, k, t.doc.text, rpc2)
                    IN IF a.raised
                       THEN DocsOutcome("RpcError", read, ev_documents[h],
                                        r_documents, Append(t.calls, "AddDocument"))
                       ELSE DocsOutcome("ok",
                                [read EXCEPT ![d].client = ev_client],
                                [ev_documents[h] EXCEPT ![k] = d], a.store,
                                Append(t.calls, "AddDocument"))

\* The order in which a listing names the documents.
DocNameOrder == <<"d1", "d2">>

UnseenAlways(map, name) == TRUE

\* `name not in self.documents`
Unseen(map, name) == map[name] = 0

\* The loop of _Documents._refresh_documents over the listed names: a
\* Document without text for every name the handle does not hold.
RECURSIVE Materialize(_, _, _, _)
Materialize(h, names, objs, map) ==
    IF names = <<>> THEN [objs |-> objs, map |-> map]
    ELSE LET name == Head(names)
         IN IF r_documents[name] = Absent \/ ~Unseen(map, name)
            THEN Materialize(h, Tail(names), objs, map)
            ELSE Materialize(h, Tail(names),
                             Append(objs, NewDocument(name, None, ev_client)),
                             [map EXCEPT ![name] = Len(objs) + 1])

\* _Documents._refresh_documents
refresh_documents(h, rpc) ==
    IF ~ev_client
    THEN DocsOutcome("ok", documentObjs, ev_documents[h], r_documents, <<>>)
    ELSE IF rpc # "ok"
    THEN DocsOutcome("RpcError", documentObjs, ev_documents[h], r_documents,
                     <<"GetAllDocumentNames">>)
    ELSE LET m == Materialize(h, DocNameOrder, documentObjs, ev_documents[h])
         IN DocsOutcome("ok", m.objs, m.map, r_documents, <<"GetAllDocumentNames">>)

\* Document(name, text=text) with no event: without a client, text is required.
ConstructDocument(name, txt) ==
    /\ Len(documentObjs) < MaxDocs
    /\ IF txt = None
       THEN /\ elast' = EvtCall("Document", 0, 0, name, "ValueError", None, <<>>)
            /\ UNCHANGED documentObjs
       ELSE /\ documentObjs' = Append(documentObjs, NewDocument(name, txt, FALSE))
            /\ elast' = EvtCall("Document", 0, Len(documentObjs) + 1, name, "ok",
                                None, <<>>)
    /\ UNCHANGED <<docVars, thrVars, proxyVars, tl, e_proxy, e_made, open_requests,
                   close_requests, ev_documents, r_documents>>

\* Event.create_document of handle h: a new Document with text, registered
\* by _Documents.__setitem__; when that raises, the caller gets no Document.
CreateDocument(h, name, txt, rpc) ==
    /\ Len(documentObjs) < MaxDocs
    /\ LET d == Len(documentObjs) + 1
           out == documents_setitem(h, name, d,
                      Append(documentObjs, NewDocument(name, txt, ev_client)),
                      "ok", rpc)
       IN /\ IF out.result = "ok"
             THEN /\ documentObjs' = out.objs
                  /\ ev_documents' = [ev_documents EXCEPT ![h] = out.map]
                  /\ r_documents' = out.store
             ELSE UNCHANGED <<documentObjs, ev_documents, r_documents>>
          /\ elast' = EvtCall("create_document", h, IF out.result = "ok" THEN d ELSE 0,
                              name, out.result, None, out.calls)
    /\ UNCHANGED <<docVars, thrVars, proxyVars, tl, e_proxy, e_made, open_requests,
                   close_requests>>

\* Event.add_document of handle h: the Document is bound to the event, then
\* registered by _Documents.__setitem__.
AddDocument(h, d, rpc1, rpc2) ==
    /\ LET bound == [documentObjs EXCEPT ![d].client = ev_client]
           out == documents_setitem(h, documentObjs[d].name, d, bound, rpc1, rpc2)
       IN /\ documentObjs' = out.objs
          /\ ev_documents' = [ev_documents EXCEPT ![h] = out.map]
          /\ r_documents' = out.store
          /\ elast' = EvtCall("add_document", h, d, documentObjs[d].name, out.result,
                              None, out.calls)
    /\ UNCHANGED <<docVars, thrVars, proxyVars, tl, e_proxy, e_made, open_requests,
                   close_requests>>

\* document.text, read by the caller.
ReadText(d, rpc) ==
    /\ LET t == text(documentObjs[d], r_documents, rpc)
       IN /\ documentObjs' = [documentObjs EXCEPT ![d] = t.doc]
          /\ elast' = EvtCall("text", 0, d, documentObjs[d].name,
                              IF t.raised THEN "RpcError" ELSE "ok",
                              IF t.raised THEN None ELSE t.doc.text, t.calls)
    /\ UNCHANGED <<docVars, thrVars, proxyVars, tl, e_proxy, e_made, open_requests,
                   close_requests, ev_documents, r_documents>>

\* event.documents[name] of handle h: _Documents.__getitem__.
Lookup(h, name, rpc) ==
    /\ IF ev_documents[h][name] # 0
       THEN /\ elast' = EvtCall("document", h, ev_documents[h][name], name, "ok",
                                None, <<>>)
            /\ UNCHANGED <<documentObjs, ev_documents>>
       ELSE LET out == refresh_documents(h, rpc)
            IN /\ Len(out.objs) <= MaxDocs
               /\ documentObjs' = out.objs
               /\ ev_documents' = [ev_documents EXCEPT ![h] = out.map]
               /\ elast' = EvtCall("document", h, out.map[name], name,
                               IF out.result # "ok" THEN out.result
                               ELSE IF out.map[name] = 0 THEN "KeyError" ELSE "ok",
                               None, out.calls)
    /\ UNCHANGED <<docVars, thrVars, proxyVars, tl, e_proxy, e_made, open_requests,
                   close_requests, r_documents>>

\* Two Event objects on one event, no Document yet.
TextInit ==
    /\ ev_client \in BOOLEAN
    /\ open_requests = (IF ev_client THEN Cardinality(Handles) ELSE 0)
    /\ close_requests = 0
    /\ e_proxy = [k \in Kinds |-> 0]
    /\ e_made = [k \in Kinds |-> 0]
    /\ tl = [t \in Threads |-> NoLocals]
    /\ elast = NoEvtCall
    /\ ev_documents = [h \in Handles |-> [n \in DocNames |-> 0]]
    /\ documentObjs = <<>>
    /\ r_documents = [n \in DocNames |-> Absent]
    /\ metadata = [k \in Keys |-> Absent]
    /\ r_metadata = [k \in Keys |-> Absent]
    /\ bin_names = {}
    /\ binaries = [k \in Keys |-> Absent]
    /\ r_binaries = [k \in Keys |-> Absent]
    /\ plast = NoProxyCall
    /\ DocIdle
    /\ ThrIdle

TextNext ==
    \/ \E n \in DocNames, txt \in Texts \cup {None} : ConstructDocument(n, txt)
    \/ \E h \in Handles, n \in DocNames, txt \in Texts, rpc \in RpcChoices(ev_client) :
           CreateDocument(h, n, txt, rpc)
    \/ \E h \in Handles, d \in DOMAIN documentObjs,
          rpc1, rpc2 \in RpcChoices(ev_client) : AddDocument(h, d, rpc1, rpc2)
    \/ \E d \in DOMAIN documentObjs, rpc \in RpcChoices(ev_client) : ReadText(d, rpc)
    \/ \E h \in Handles, n \in DocNames, rpc \in RpcChoices(ev_client) :
           Lookup(h, n, rpc)

SpecText == TextInit /\ [][TextNext]_vars

(***************************************************************************)
(* SpecLocal: an Event without a client, with its proxies, its Documents   *)
(* and one Document's label indices and Labelers. These parts share no     *)
(* state, so what a call on one part does is independent of the calls made *)
(* on the others: a behaviour follows the calls made on one part.          *)
(***************************************************************************)
Parts == {"event", "documents", "document", "metadata", "binaries"}

\* The part of the Event that the caller works on.
OnPart(p) == tl[1].part = p

\* Event(event_id=...) with no client, no Document yet.
LocalInit ==
    /\ DocIdle
    /\ ThrIdle
    /\ ProxyIdle
    /\ \E p \in Parts : tl = [t \in Threads |-> [part |-> p]]
    /\ e_proxy = [k \in Kinds |-> 0]
    /\ e_made = [k \in Kinds |-> 0]
    /\ open_requests = 0
    /\ close_requests = 0
    /\ ev_documents = [h \in Handles |-> [n \in DocNames |-> 0]]
    /\ documentObjs = <<>>
    /\ r_documents = [n \in DocNames |-> Absent]
    /\ elast = NoEvtCall

LocalNext ==
    \/ OnPart("event") /\ EventNext
    \/ OnPart("documents") /\ TextNext
    \/ OnPart("document") /\ Next
    \/ OnPart("metadata") /\ MetaNext
    \/ OnPart("binaries") /\ BinNext

SpecLocal == LocalInit /\ [][LocalNext]_vars

(***************************************************************************)
(* SpecCreated: one Event holding a Document with two label index names,   *)
(* the indices committed on it, fetched by it and reported by the Event.   *)
(***************************************************************************)
CreatedNames == {"one", "two"}

NoCreatedIndices(d) == <<>>

\* Document.created_indices of Document object d: object 1 is the Document
\* whose fields the specification follows, any other was made by a refresh
\* and has committed nothing.
document_created_indices(d) == IF d = 1 THEN created_indices ELSE <<>>

\* Event.created_indices: `self.documents.items()` iterates the proxy, which
\* refreshes, and reads created_indices of every Document held.
EventCreatedIndices(rpc) ==
    /\ LET out == refresh_documents(1, rpc)
           report == [held |-> {n \in DocNames : out.map[n] # 0},
                      created |-> [n \in DocNames |->
                                      document_created_indices(out.map[n])]]
       IN /\ Len(out.objs) <= MaxDocs
          /\ documentObjs' = out.objs
          /\ ev_documents' = [ev_documents EXCEPT ![1] = out.map]
          /\ elast' = IF out.result = "ok"
                      THEN EvtCall("created_indices", 1, 0, "d1", "ok", report,
                                   out.calls)
                      ELSE EvtCall("created_indices", 1, 0, "d1", out.result, None,
                                   out.calls)
    /\ UNCHANGED <<docVars, thrVars, proxyVars, tl, e_proxy, e_made, open_requests,
                   close_requests, r_documents>>

\* The values of LabelIndexInfo.type in a GetLabelIndicesInfoResponse.
WireTypes == {"UNKNOWN", "JSON", "OTHER"}

IndexTypeJson(wire) == "JSON"

\* The if / elif / else of EventsClient.get_label_index_info: the reply's
\* type as a LabelIndexType.
index_type(wire) ==
    IF wire = "JSON" THEN "JSON"
    ELSE IF wire = "OTHER" THEN "OTHER"
    ELSE "UNKNOWN"

\* The order in which names are listed.
IndexNameOrder == <<"one", "two">>

\* LabelIndexInfo(index_name, type)
LabelIndexInfo(index_name, type) == [index_name |-> index_name, type |-> type]

\* The infos of the names that `held` holds, typed by `typeOf`.
RECURSIVE InfoList(_, _, _)
InfoList(names, held, typeOf) ==
    IF names = <<>> THEN <<>>
    ELSE IF held[Head(names)].present
    THEN <<LabelIndexInfo(Head(names), typeOf[Head(names)])>>
             \o InfoList(Tail(names), held, typeOf)
    ELSE InfoList(Tail(names), held, typeOf)

\* Document.get_label_indices_info. With a client, one GetLabelIndicesInfo
\* request: reply is the type the service reports for each index it holds.
get_label_indices_info(rpc, reply) ==
    IF client
    THEN IF rpc # "ok"
         THEN [result |-> "RpcError", ret |-> <<>>, calls |-> <<"GetLabelIndicesInfo">>]
         ELSE [result |-> "ok",
               ret |-> InfoList(IndexNameOrder, remote_labels,
                                [n \in CreatedNames |-> index_type(reply[n])]),
               calls |-> <<"GetLabelIndicesInfo">>]
    ELSE [result |-> "ok",
          ret |-> InfoList(IndexNameOrder, label_indices,
                           [n \in CreatedNames |-> "JSON"]),
          calls |-> <<>>]

GetLabelIndicesInfo(rpc, reply) ==
    /\ LET out == get_label_indices_info(rpc, reply)
       IN elast' = EvtCall("get_label_indices_info", 0, 1, "d1", out.result, out.ret,
                           out.calls)
    /\ UNCHANGED <<docVars, thrVars, proxyVars, tl, e_proxy, e_made, open_requests,
                   close_requests, ev_documents, documentObjs, r_documents>>

\* An Event, with or without a client, that holds one Document, "d1"; the
\* service may hold a second document that other clients added.
CreatedInit ==
    /\ client \in BOOLEAN
    /\ ev_client = client
    /\ label_indices = [n \in CreatedNames |-> NoIndex]
    /\ labelers = <<>>
    /\ created_indices = <<>>
    /\ labelerObjs = <<>>
    /\ remote_labels = [n \in CreatedNames |-> NoIndex]
    /\ last = NoCall
    /\ ThrIdle
    /\ metadata = [k \in Keys |-> Absent]
    /\ r_metadata = [k \in Keys |-> Absent]
    /\ bin_names = {}
    /\ binaries = [k \in Keys |-> Absent]
    /\ r_binaries = [k \in Keys |-> Absent]
    /\ plast = NoProxyCall
    /\ tl = [t \in Threads |-> NoLocals]
    /\ e_proxy = [k \in Kinds |-> 0]
    /\ e_made = [k \in Kinds |-> 0]
    /\ open_requests = (IF client THEN 1 ELSE 0)
    /\ close_requests = 0
    /\ documentObjs = <<NewDocument("d1", "t1", client)>>
    /\ ev_documents = [h \in Handles |->
                          [n \in DocNames |-> IF h = 1 /\ n = "d1" THEN 1 ELSE 0]]
    /\ \E other \in (IF client THEN {Absent, "t1"} ELSE {Absent}) :
           r_documents = [n \in DocNames |->
                             IF n = "d1" THEN (IF client THEN "t1" ELSE Absent)
                             ELSE other]
    /\ elast = NoEvtCall

\* The label lists of SpecCreated: what is committed matters here, not which
\* labels it holds.
CreatedLists == {<<>>, <<Span(0, 1)>>}

CreatedNext ==
    \/ \E n \in CreatedNames, ls \in CreatedLists, rpc \in RpcChoices(client) :
           AddLabels(n, ls, "none", "none", rpc)
    \/ \E n \in CreatedNames, rpc \in RpcChoices(client) :
           GetLabelIndex(n, "none", rpc)
    \/ \E n \in CreatedNames : GetLabeler(n, "none", "none")
    \/ \E i \in DOMAIN labelerObjs, rpc \in RpcChoices(client) : Done(i, rpc)
    \/ \E n \in CreatedNames : OtherClientAddLabels(n, <<Span(0, 1)>>, FALSE)
    \/ \E rpc \in RpcChoices(client) : EventCreatedIndices(rpc)

SpecCreated == CreatedInit /\ [][CreatedNext]_vars

(***************************************************************************)
(* SpecInfo: the same Document, its label indices committed with either    *)
(* stock adapter, and get_label_indices_info.                              *)
(***************************************************************************)
\* The Event holds the one Document of the event.
InfoInit == CreatedInit /\ r_documents["d2"] = Absent

InfoNext ==
    \/ \E n \in CreatedNames, a \in {"none", "distinct"}, rpc \in RpcChoices(client) :
           AddLabels(n, <<Span(0, 1)>>, "none", a, rpc)
    \/ \E n \in CreatedNames, rpc \in RpcChoices(client) :
           GetLabelIndex(n, "none", rpc)
    \/ \E n \in CreatedNames : GetLabeler(n, "none", "none")
    \/ \E i \in DOMAIN labelerObjs, rpc \in RpcChoices(client) : Done(i, rpc)
    \/ \E n \in CreatedNames : OtherClientAddLabels(n, <<Span(0, 1)>>, FALSE)
    \/ \E rpc \in RpcChoices(client), reply \in [CreatedNames -> WireTypes] :
           GetLabelIndicesInfo(rpc, reply)

SpecInfo == InfoInit /\ [][InfoNext]_vars

(***************************************************************************)
(* SpecAdd: several threads calling add_labels with one index name on one  *)
(* Document, one statement of Document.add_labels per step.                *)
(***************************************************************************)
\* The labels that thread t passes: each thread its own.
ThreadLabels(t) == <<Span(0, t)>>

\* A thread calls document.add_labels("one", labels).
AddLabelsCall(t) ==
    /\ pc[t] = "idle"
    /\ tl[t].result = "none"
    /\ pc' = [pc EXCEPT ![t] = "check"]
    /\ UNCHANGED <<docVars, lock, proxyVars, evtVars>>

\* `if label_index_name in self._label_indices: raise KeyError(...)`
AddLabelsCheck(t) ==
    /\ pc[t] = "check"
    /\ IF IndexExists("one")
       THEN /\ tl' = [tl EXCEPT ![t].result = "KeyError"]
            /\ pc' = [pc EXCEPT ![t] = "idle"]
       ELSE /\ pc' = [pc EXCEPT ![t] = "push"]
            /\ UNCHANGED tl
    /\ UNCHANGED <<docVars, lock, proxyVars, e_proxy, e_made, open_requests,
                   close_requests, ev_documents, documentObjs, r_documents, elast>>

\* `labels = sorted(...)`, then `if self._client is not None:
\* self._client.add_labels(...)`: the request returns, or the call raises
\* what the request raised.
AddLabelsPush(t, rpc) ==
    /\ pc[t] = "push"
    /\ IF ~client
       THEN /\ pc' = [pc EXCEPT ![t] = "append"]
            /\ UNCHANGED <<tl, remote_labels>>
       ELSE IF rpc # "ok"
       THEN /\ tl' = [tl EXCEPT ![t].result = "RpcError",
                                ![t].calls = Append(@, "AddLabels")]
            /\ pc' = [pc EXCEPT ![t] = "idle"]
            /\ UNCHANGED remote_labels
       ELSE /\ tl' = [tl EXCEPT ![t].calls = Append(@, "AddLabels")]
            /\ remote_labels' = [remote_labels EXCEPT !["one"] =
                                     add_to_message("generic", sorted(tl[t].labels))]
            /\ pc' = [pc EXCEPT ![t] = "append"]
    /\ UNCHANGED <<client, label_indices, labelers, created_indices, labelerObjs,
                   last, lock, proxyVars, e_proxy, e_made, open_requests,
                   close_requests, ev_documents, documentObjs, r_documents, elast>>

\* `self._created_indices.append(label_index_name)`
AddLabelsAppend(t) ==
    /\ pc[t] = "append"
    /\ created_indices' = Append(created_indices, "one")
    /\ pc' = [pc EXCEPT ![t] = "assign"]
    /\ UNCHANGED <<client, label_indices, labelers, labelerObjs, remote_labels,
                   last, lock, proxyVars, evtVars>>

\* `index = label_adapter.create_index(labels)`,
\* `self._label_indices[label_index_name] = index`, `return index`
AddLabelsAssign(t) ==
    /\ pc[t] = "assign"
    /\ label_indices' = [label_indices EXCEPT !["one"] =
                             create_index("generic", sorted(tl[t].labels))]
    /\ tl' = [tl EXCEPT ![t].result = "ok"]
    /\ pc' = [pc EXCEPT ![t] = "idle"]
    /\ UNCHANGED <<client, labelers, created_indices, labelerObjs, remote_labels,
                   last, lock, proxyVars, e_proxy, e_made, open_requests,
                   close_requests, ev_documents, documentObjs, r_documents, elast>>

\* One Document without indices, and threads that are in no call.
AddInit ==
    /\ DocInit
    /\ ThrIdle
    /\ ProxyIdle
    /\ tl = [t \in Threads |-> [labels |-> ThreadLabels(t), result |-> "none",
                                calls |-> <<>>]]
    /\ e_proxy = [k \in Kinds |-> 0]
    /\ e_made = [k \in Kinds |-> 0]
    /\ open_requests = 0
    /\ close_requests = 0
    /\ ev_documents = [h \in Handles |-> [n \in DocNames |-> 0]]
    /\ documentObjs = <<>>
    /\ r_documents = [n \in DocNames |-> Absent]
    /\ elast = NoEvtCall

AddNext ==
    \/ \E t \in Threads : AddLabelsCall(t)
    \/ \E t \in Threads : AddLabelsCheck(t)
    \/ \E t \in Threads, rpc \in RpcChoices(client) : AddLabelsPush(t, rpc)
    \/ \E t \in Threads : AddLabelsAppend(t)
    \/ \E t \in Threads : AddLabelsAssign(t)

SpecAdd == AddInit /\ [][AddNext]_vars

(***************************************************************************)
(* Claims about the metadata and binaries proxies.                         *)
(***************************************************************************)
AddRequests == {"AddMetadata", "AddBinaryData"}
ListRequests == {"GetAllMetadata", "GetAllBinaryDataNames"}

Sent(call, requests) == \E i \in DOMAIN call.calls : call.calls[i] \in requests

\* The proxy holds an entry for the key: a cached value or, for binaries, a
\* known name.
HoldsKey(proxy, key) ==
    \/ proxy = "metadata" /\ metadata[key] # Absent
    \/ proxy = "binaries" /\ (binaries[key] # Absent \/ key \in bin_names)

\* C4: a set whose AddMetadata / AddBinaryData request failed leaves the local
\* cache without the key.
C4_FailedSetLeavesNoEntry ==
    (plast.op = "set" /\ plast.result = "RpcError" /\ Sent(plast, AddRequests))
        => ~HoldsKey(plast.proxy, plast.key)

\* What C5 asks of one step.
C5_RefreshAdditiveStep ==
    Sent(plast', ListRequests)
        => /\ \A k \in Keys :
                  /\ metadata[k] # Absent => metadata'[k] = metadata[k]
                  /\ binaries[k] # Absent => binaries'[k] = binaries[k]
           /\ bin_names \subseteq bin_names'

\* C5: a refresh is additive only: every entry cached before a call that
\* refreshed is cached with the same value after it, and no known name is lost.
C5_RefreshAdditive == [][C5_RefreshAdditiveStep]_vars

\* What C6 asks of one step.
C6_WriteOnceStep ==
    (plast'.op = "set" /\ HoldsKey(plast'.proxy, plast'.key))
        => /\ plast'.result = "KeyError"
           /\ ~Sent(plast', AddRequests)
           /\ metadata'[plast'.key] = metadata[plast'.key]
           /\ binaries'[plast'.key] = binaries[plast'.key]

\* C6: a set on a key the proxy already holds fails with KeyError (the spec's
\* AlreadyExists), leaves the stored value as it was and sends no add request.
C6_WriteOnce == [][C6_WriteOnceStep]_vars

\* The thread has completed a set call.
Returned(t) == pc[t] = "idle" /\ tl[t].result # "none"

\* C13: of two threads' set calls with the same key on the same proxy, made
\* concurrently or one after the other, at most one succeeds: when one has
\* succeeded the other has failed, and if it failed with KeyError (the spec's
\* AlreadyExists) it sent no add request and the key holds the successful
\* call's value.
C13_OneWriterWins ==
    \A t1, t2 \in Threads :
        (/\ t1 # t2
         /\ Returned(t1) /\ Returned(t2)
         /\ tl[t1].key = tl[t2].key
         /\ tl[t1].result = "ok")
            => /\ tl[t2].result # "ok"
               /\ tl[t2].result = "KeyError"
                      => /\ ~Sent(tl[t2], AddRequests)
                         /\ IF tl[t1].proxy = "metadata"
                            THEN metadata[tl[t1].key] = tl[t1].value
                            ELSE binaries[tl[t1].key] = tl[t1].value

(***************************************************************************)
(* Claims about Document and Labeler.                                      *)
(***************************************************************************)
LabelersOf(objs, n) == {i \in DOMAIN objs : objs[i].name = n}

CountOf(seq, x) == Cardinality({i \in DOMAIN seq : seq[i] = x})

\* A step that is a call of op, made on a Labeler that had not completed done().
FirstDoneStep ==
    /\ last'.op \in {"done", "exit"}
    /\ last'.exc = "none"
    /\ ~labelerObjs[last'.labeler].is_done

\* A call of done() on a Labeler whose done() had completed before.
RepeatedDoneStep ==
    /\ last'.op \in {"done", "exit"}
    /\ last'.exc = "none"
    /\ labelerObjs[last'.labeler].is_done

\* What C1 asks of one step.
C1_GetLabelerRejectsCommittedStep ==
    (last'.op = "get_labeler" /\ label_indices[last'.name].present)
        => /\ last'.result # "ok"
           /\ labelerObjs' = labelerObjs
           /\ labelers' = labelers

\* C1: get_labeler for a name that has a committed index fails and hands out
\* no Labeler.
C1_GetLabelerRejectsCommitted == [][C1_GetLabelerRejectsCommittedStep]_vars

\* What C2 asks of one step.
C2_AddLabelsRejectsCommittedStep ==
    ((last'.op = "add_labels" \/ FirstDoneStep) /\ label_indices[last'.name].present)
        => /\ last'.result = "KeyError"
           /\ last'.calls = <<>>
           /\ label_indices' = label_indices
           /\ created_indices' = created_indices
           /\ remote_labels' = remote_labels

\* C2: add_labels for a name that has a committed index fails with KeyError
\* (the spec's AlreadyExists), sends no AddLabels request and leaves the cached
\* index, the created-indices list and the service unchanged; the same holds
\* when the call is the commit of a Labeler.
C2_AddLabelsRejectsCommitted == [][C2_AddLabelsRejectsCommittedStep]_vars

\* An add_labels call on a connected document was rejected for a committed name.
C2_Witness ==
    /\ last.op = "add_labels"
    /\ last.result = "KeyError"
    /\ client
    /\ label_indices[last.name].present
    /\ label_indices[last.name].labels # <<>>

\* What C3 asks of one step.
C3_OneLabelerPerNameStep ==
    /\ (/\ last'.op = "get_labeler"
        /\ \E i \in LabelersOf(labelerObjs, last'.name) : ~labelerObjs[i].is_done)
           => /\ last'.result = "KeyError"
              /\ labelerObjs' = labelerObjs
              /\ labelers' = labelers
    /\ \A n \in IndexNames : Cardinality(LabelersOf(labelerObjs', n)) <= 1

\* C3: get_labeler for a name whose Labeler is still open fails with KeyError
\* (the spec's AlreadyInUse) and hands out nothing, and no name ever has two
\* Labelers.
C3_OneLabelerPerName == [][C3_OneLabelerPerNameStep]_vars

\* A get_labeler call was rejected while the name's Labeler, with labels
\* staged, was open.
C3_Witness ==
    /\ last.op = "get_labeler"
    /\ last.result = "KeyError"
    /\ \E i \in LabelersOf(labelerObjs, last.name) :
           /\ ~labelerObjs[i].is_done
           /\ labelerObjs[i].current_labels # <<>>

\* What C7, as claimed, asks of one step.
C7_ErrorExitCommitsStep ==
    (last'.op = "exit" /\ last'.exc = "error")
        => labelerObjs'[last'.labeler].is_done

C7_OnlyNormalExitCommitsStep ==
    /\ (last'.op = "exit" /\ last'.exc # "none")
           => /\ last'.result = "propagated"
              /\ last'.calls = <<>>
              /\ labelerObjs' = labelerObjs
              /\ label_indices' = label_indices
              /\ created_indices' = created_indices
              /\ remote_labels' = remote_labels
    /\ (last'.op = "exit" /\ last'.exc = "none")
           => /\ labelerObjs'[last'.labeler].is_done
              /\ labelerObjs'[last'.labeler].commits = 1

C8_CreateAfterDoneRejectedStep ==
    (last'.op = "create" /\ labelerObjs[last'.labeler].is_done)
        => /\ last'.result # "ok"
           /\ labelerObjs'[last'.labeler].current_labels
                  = labelerObjs[last'.labeler].current_labels

\* C8: a create call on a Labeler whose done() has completed is rejected and
\* stages nothing.
C8_CreateAfterDoneRejected == [][C8_CreateAfterDoneRejectedStep]_vars

\* What C9 asks of one step.
C9_DoneIdempotentStep ==
    /\ \A i \in DOMAIN labelerObjs' :
           /\ labelerObjs'[i].commits <= 1
           /\ labelerObjs'[i].is_done <=> labelerObjs'[i].commits = 1
    /\ (FirstDoneStep /\ last'.result = "ok")
           => LET lb == labelerObjs[last'.labeler]
              IN /\ label_indices'[lb.name] =
                        [present |-> TRUE, labels |-> sorted(lb.current_labels),
                         distinct |-> lb.adapter = "distinct"]
                 /\ created_indices' = Append(created_indices, lb.name)
                 /\ CountOf(created_indices', lb.name) = 1
                 /\ Len(last'.calls) <= 1
                 /\ client => last'.calls = <<"AddLabels">>
    /\ RepeatedDoneStep
           => /\ last'.result = "ok"
              /\ last'.calls = <<>>
              /\ UNCHANGED <<label_indices, created_indices, remote_labels,
                             labelerObjs, labelers>>

\* C9: done() is idempotent. Every Labeler runs its commit (add_labels) once,
\* on its first done(); a first done() that succeeds leaves one index holding
\* the staged labels, sorted, with the adapter's distinct flag, one
\* created-indices entry and at most one AddLabels request; every later done()
\* returns normally, sends nothing and changes nothing.
C9_DoneIdempotent == [][C9_DoneIdempotentStep]_vars

\* A repeated done(): on a connected document a call that returns normally
\* without a request can only be one.
C9_Witness ==
    /\ last.op = "done"
    /\ last.result = "ok"
    /\ last.calls = <<>>
    /\ client
    /\ labelerObjs[last.labeler].is_done
    /\ labelerObjs[last.labeler].commits = 1
    /\ Len(labelerObjs[last.labeler].current_labels) = 2
    /\ label_indices[last.name].labels = sorted(labelerObjs[last.labeler].current_labels)
    /\ label_indices[last.name].labels # labelerObjs[last.labeler].current_labels
    /\ CountOf(created_indices, last.name) = 1

\* C10: threads calling done() on one Labeler concurrently run the commit
\* (Document.add_labels) at most once, under every interleaving.
C10_ConcurrentDoneCommitsOnce ==
    labelerObjs[1].commits <= 1

\* One thread is in the commit while another waits for the lock.
C10_Witness ==
    \E t1, t2 \in Threads :
        /\ t1 # t2
        /\ pc[t1] = "commit"
        /\ pc[t2] = "acquire"
        /\ lock = t1

\* What C11 asks of one step.
C11_FailedDoneNotRetriedStep ==
    /\ (FirstDoneStep /\ last'.result # "ok")
           => /\ labelerObjs'[last'.labeler].is_done
              /\ labelerObjs'[last'.labeler].commits = 1
              /\ UNCHANGED <<label_indices, created_indices, remote_labels>>
    /\ RepeatedDoneStep
           => /\ last'.result = "ok"
              /\ last'.calls = <<>>
              /\ labelerObjs' = labelerObjs
              /\ UNCHANGED <<label_indices, created_indices, remote_labels>>
    /\ \A i \in DOMAIN labelerObjs' : labelerObjs'[i].commits <= 1

\* C11: a first done() whose commit fails (the AddLabels request raises, or
\* add_labels raises KeyError because the name is committed) still leaves the
\* Labeler done; every later done() returns normally without calling add_labels
\* and without a request, so no Labeler attempts its commit more than once.
C11_FailedDoneNotRetried == [][C11_FailedDoneNotRetriedStep]_vars

\* A done() repeated after the first one failed in the AddLabels request: the
\* Labeler is done, holds staged labels, and its name has no index anywhere.
C11_Witness ==
    /\ last.op = "done"
    /\ last.result = "ok"
    /\ last.calls = <<>>
    /\ client
    /\ labelerObjs[last.labeler].is_done
    /\ labelerObjs[last.labeler].commits = 1
    /\ labelerObjs[last.labeler].current_labels # <<>>
    /\ ~label_indices[last.name].present
    /\ ~remote_labels[last.name].present

\* What C16 asks of one step.
C16_GetLabelIndexCachedStep ==
    last'.op = "get_label_index"
        => LET n == last'.name
           IN /\ label_indices[n].present
                     => /\ last'.result = "ok"
                        /\ last'.calls = <<>>
                        /\ label_indices' = label_indices
              /\ (~label_indices[n].present /\ client)
                     => /\ last'.calls = <<"GetLabels">>
                        /\ last'.result = "ok"
                               => label_indices'[n] =
                                      label_index(remote_labels[n].labels,
                                                  remote_labels[n].distinct)
              /\ (~label_indices[n].present /\ ~client) => last'.calls = <<>>

\* C16: get_label_index for a name the Document holds, fetched by an earlier
\* call or committed locally by add_labels, sends no request and leaves the
\* cached index as it is; for a name it does not hold, a connected Document
\* sends exactly one GetLabels and, when that returns, caches the reply. So
\* sequential calls for one name send one request that returns.
C16_GetLabelIndexCached == [][C16_GetLabelIndexCachedStep]_vars

\* A get_label_index call on a connected Document was served from the cache
\* for an index that was fetched, not committed here.
C16_Witness ==
    /\ last.op = "get_label_index"
    /\ last.result = "ok"
    /\ last.calls = <<>>
    /\ client
    /\ label_indices[last.name].present
    /\ label_indices[last.name].labels # <<>>
    /\ CountOf(created_indices, last.name) = 0

\* What C17 asks of one step.
C17_CommittedIndexStableStep ==
    \A n \in IndexNames :
        label_indices[n].present => label_indices'[n] = label_indices[n]

\* C17: once a name has an index on the Document, no operation replaces,
\* changes or removes it: get_label_index, get_labeler, add_labels, create
\* (also after done) and done leave its labels and its distinct flag as they
\* were.
C17_CommittedIndexStable == [][C17_CommittedIndexStableStep]_vars

\* A create call was made on a Labeler after its done() had committed, and the
\* committed index holds the labels staged before.
C17_Witness ==
    /\ last.op = "create"
    /\ labelerObjs[last.labeler].is_done
    /\ label_indices[last.name].present
    /\ CountOf(created_indices, last.name) = 1
    /\ Len(labelerObjs[last.labeler].current_labels) = 2
    /\ Len(label_indices[last.name].labels) = 1

IsSorted(labels) ==
    \A i \in 1..(Len(labels) - 1) : LocationLeq(labels[i], labels[i + 1])

SameLabels(a, b) ==
    /\ Len(a) = Len(b)
    /\ \A x \in SortUniverse : CountOf(a, x) = CountOf(b, x)

\* The index of name n after the step holds the labels ls, sorted, and on a
\* connected Document the request carried them in that order.
CommittedSorted(n, ls) ==
    /\ label_indices'[n].present
    /\ IsSorted(label_indices'[n].labels)
    /\ SameLabels(ls, label_indices'[n].labels)
    /\ client => remote_labels'[n].labels = label_indices'[n].labels

\* What C18 asks of one step.
C18_CommittedLabelsSortedStep ==
    /\ (last'.op = "add_labels" /\ last'.result = "ok")
           => CommittedSorted(last'.name, CallerLabels)
    /\ (FirstDoneStep /\ last'.result = "ok")
           => CommittedSorted(last'.name, labelerObjs[last'.labeler].current_labels)

\* C18: whatever list of labels add_labels is given, or a Labeler has staged,
\* in any order and with duplicates and overlaps, the committed index holds
\* exactly those labels in non-decreasing (start_index, end_index) order, and
\* on a connected Document the AddLabels request carries them in that order.
C18_CommittedLabelsSorted == [][C18_CommittedLabelsSortedStep]_vars

\* add_labels on a connected Document was given three labels in descending
\* order, two of them equal, and committed them in ascending order.
C18_Witness ==
    /\ last.op = "add_labels"
    /\ last.result = "ok"
    /\ client
    /\ CallerLabels = <<Span(1, 2), Span(0, 2), Span(0, 2)>>
    /\ label_indices[last.name].labels = <<Span(0, 2), Span(0, 2), Span(1, 2)>>
    /\ remote_labels[last.name].labels = <<Span(0, 2), Span(0, 2), Span(1, 2)>>

\* What get_label_index returns on another Document object for the same
\* event, document and name: the GetLabels reply turned into an index.
FetchedIndex(n) == create_index_from_response("generic", remote_labels[n])

\* C19: an index committed on a connected Document, by add_labels or by a
\* Labeler, is returned by get_label_index on another Document object for the
\* same document with the distinct flag it was committed with.
C19_DistinctRoundTrip ==
    \A n \in IndexNames :
        (client /\ CountOf(created_indices, n) = 1)
            => FetchedIndex(n).distinct = label_indices[n].distinct

(***************************************************************************)
(* Claims about Event.                                                     *)
(***************************************************************************)
\* C12: each of an Event's documents, metadata and binaries proxies is created
\* at most once, and all threads that read the attribute, concurrently or not,
\* obtain the same proxy object.
C12_ProxyCreatedOnce ==
    \A k \in Kinds :
        /\ e_made[k] <= 1
        /\ \A t1, t2 \in Threads :
               (/\ tl[t1].kind = k /\ tl[t1].held # 0
                /\ tl[t2].kind = k /\ tl[t2].held # 0)
                   => tl[t1].held = tl[t2].held

\* What C20 asks of one step.
C20_CloseIdempotentStep ==
    /\ (/\ elast'.op \in {"close", "exit"}
        /\ elast.op \in {"close", "exit"} /\ elast.calls = <<"CloseEvent">>)
           => (elast'.calls = <<>> /\ close_requests' = close_requests)
    /\ (elast'.op \in {"close", "exit"} /\ ~ev_client)
           => (elast'.calls = <<>> /\ close_requests' = 0)

\* C20: close() is idempotent. On a connected Event a close(), explicit or at
\* the end of a `with` block, that follows a close() which sent CloseEvent sends
\* no second one; on an unconnected Event close() sends nothing.
C20_CloseIdempotent == [][C20_CloseIdempotentStep]_vars

\* What C21 asks of one step.
C21_OpenFailureSurfacedStep ==
    \A o \in BOOLEAN, rpc \in OpenOutcomes :
        (ev_client /\ NewEvent(o, rpc)) =>
            /\ rpc = "RpcError" => (elast'.result = "RpcError" /\ elast'.ret = None)
            /\ rpc = "ALREADY_EXISTS" =>
                   (elast'.result = "ValueError" /\ elast'.ret = None)

\* C21: constructing a connected Event surfaces a failure of its OpenEvent
\* request: a transport error makes construction fail with that error and
\* yields no Event, and the service's already-exists answer (only_create_new
\* on an existing event) makes it fail with the already-exists error.
C21_OpenFailureSurfaced == [][C21_OpenFailureSurfacedStep]_vars

(***************************************************************************)
(* Claims about Document text.                                             *)
(***************************************************************************)
\* A step that is a read of document.text by the caller.
TextReadStep == elast'.op = "text"

\* What C14 asks of one step.
C14_TextImmutableStep ==
    /\ \A d \in DOMAIN documentObjs :
           documentObjs[d].text # None
               => documentObjs'[d].text = documentObjs[d].text
    /\ (TextReadStep /\ elast'.result = "ok")
           => /\ elast'.ret = documentObjs'[elast'.doc].text
              /\ documentObjs[elast'.doc].text # None
                     => elast'.ret = documentObjs[elast'.doc].text
    /\ (elast'.op \in {"create_document", "add_document"}
            /\ elast'.result = "ok" /\ ev_client)
           => r_documents'[elast'.name] = documentObjs'[elast'.doc].text
    /\ (TextReadStep /\ elast'.calls # <<>> /\ elast'.result = "ok")
           => elast'.ret = r_documents[elast'.name]

\* C14: a Document's text, once set at construction or by the first read, is
\* never changed by any operation, and every read returns it; on a connected
\* event create_document and add_document leave the service holding the
\* Document's text under its name, and the first read of a Document that
\* another Event object materialized returns the text the service holds.
C14_TextImmutable == [][C14_TextImmutableStep]_vars

\* A Document created with a non-empty text through one Event object was read
\* back, by a request, through the Document another Event object materialized.
C14_Witness ==
    /\ ev_client
    /\ elast.op = "text"
    /\ elast.result = "ok"
    /\ elast.calls = <<"GetDocumentText">>
    /\ elast.ret = "t1"
    /\ \E h1, h2 \in Handles :
           /\ h1 # h2
           /\ ev_documents[h2][elast.name] = elast.doc
           /\ ev_documents[h1][elast.name] \notin {0, elast.doc}
           /\ documentObjs[ev_documents[h1][elast.name]].text = elast.ret

\* What C15 asks of one step.
C15_TextFetchedOnceStep ==
    TextReadStep
        => LET before == documentObjs[elast'.doc]
               after == documentObjs'[elast'.doc]
           IN /\ before.text # None
                     => (elast'.calls = <<>> /\ elast'.result = "ok")
              /\ (before.text = None /\ before.client)
                     => /\ elast'.calls = <<"GetDocumentText">>
                        /\ elast'.result = "ok" => after.text # None
              /\ (before.text = None /\ ~before.client) => elast'.calls = <<>>

\* C15: a text read of a Document whose text is set, by construction or by an
\* earlier read, sends no request; a read of a connected Document whose text is
\* unset sends exactly one GetDocumentText and, when that returns, sets the
\* text. So sequential reads send one request that returns, whatever their
\* number, and none when the Document was constructed with text.
C15_TextFetchedOnce == [][C15_TextFetchedOnceStep]_vars

\* A connected Document constructed without text, whose text is the empty
\* string, was read again after the read that fetched it: no request was sent.
\* (Of two Documents held under one name of the service, the later one was
\* materialized without text by a lookup.)
C15_Witness ==
    /\ ev_client
    /\ elast.op = "text"
    /\ elast.result = "ok"
    /\ elast.calls = <<>>
    /\ elast.ret = ""
    /\ \E h \in Handles : ev_documents[h][elast.name] = elast.doc
    /\ \E h \in Handles :
           /\ ev_documents[h][elast.name] # 0
           /\ ev_documents[h][elast.name] < elast.doc

(***************************************************************************)
(* Claims about an Event without a client.                                 *)
(***************************************************************************)
\* The call sent no request and did not end in a transport error.
NoRemote(call) == call.calls = <<>> /\ call.result # "RpcError"

\* Without a client: no call sends a request or ends in a transport error,
\* a read of what the local state lacks raises KeyError, and a second write
\* of a label index, metadata key or binary name raises KeyError.
LocalOnlyStep ==
    /\ NoRemote(last') /\ NoRemote(plast') /\ NoRemote(elast')
    /\ remote_labels' = remote_labels
    /\ r_metadata' = r_metadata /\ r_binaries' = r_binaries
    /\ r_documents' = r_documents
    /\ open_requests' = 0 /\ close_requests' = 0
    /\ last'.op = "get_label_index"
           => last'.result = (IF label_indices[last'.name].present
                              THEN "ok" ELSE "KeyError")
    /\ ((last'.op = "add_labels" \/ FirstDoneStep)
            /\ label_indices[last'.name].present)
           => (last'.result = "KeyError" /\ label_indices' = label_indices)
    /\ (plast'.op = "get" /\ plast'.proxy = "metadata")
           => plast'.result = (IF metadata[plast'.key] # Absent
                               THEN "ok" ELSE "KeyError")
    /\ (plast'.op = "get" /\ plast'.proxy = "binaries")
           => plast'.result = (IF binaries[plast'.key] # Absent
                               THEN "ok" ELSE "KeyError")
    /\ plast'.op = "set"
           => /\ plast'.result = (IF HoldsKey(plast'.proxy, plast'.key)
                                  THEN "KeyError" ELSE "ok")
              /\ HoldsKey(plast'.proxy, plast'.key)
                     => (metadata' = metadata /\ binaries' = binaries)
    /\ elast'.op = "document"
           => elast'.result = (IF ev_documents[elast'.handle][elast'.name] # 0
                               THEN "ok" ELSE "KeyError")

\* A step that registers a Document under a name its Event already holds.
DuplicateDocumentStep ==
    /\ elast'.op \in {"create_document", "add_document"}
    /\ ev_documents[elast'.handle][elast'.name] # 0

\* What C22 asks of one step.
C22_LocalOnlyStep ==
    (~client /\ ~ev_client)
        => /\ LocalOnlyStep
           /\ DuplicateDocumentStep
                  => (elast'.result = "KeyError" /\ ev_documents' = ev_documents)

\* C22: on an Event without a client, and on its Documents, Labelers and
\* proxies, no call sends a request or raises a transport error; a missing
\* key, document or label index raises KeyError (NotFound) and every duplicate
\* write, a Document registered under a held name included, raises KeyError
\* (AlreadyExists), decided by the local state alone.
C22_LocalOnly == [][C22_LocalOnlyStep]_vars

\* What the amended C22 asks of one step.
C22_LocalOnlyOverwriteStep ==
    (~client /\ ~ev_client)
        => /\ LocalOnlyStep
           /\ elast'.op \in {"create_document", "add_document"}
                  => /\ elast'.result = "ok"
                     /\ ev_documents'[elast'.handle][elast'.name] = elast'.doc

\* C22, amended: on an Event without a client no call sends a request or
\* raises a transport error; a missing key, document or label index raises
\* KeyError and a duplicate label index, metadata key or binary name raises
\* KeyError, decided by the local state alone; registering a Document under a
\* name the Event already holds raises nothing and replaces the Document held.
C22_LocalOnlyOverwrite == [][C22_LocalOnlyOverwriteStep]_vars

\* On an Event without a client a second Document was created under the name
\* of the first and took its place, with no request sent.
C22_Witness ==
    /\ ~ev_client
    /\ OnPart("documents")
    /\ elast.op = "create_document" /\ elast.result = "ok" /\ elast.calls = <<>>
    /\ elast.doc = 2
    /\ documentObjs[1].name = elast.name
    /\ documentObjs[1].text # documentObjs[2].text
    /\ ev_documents[elast.handle][elast.name] = 2
    /\ \A h \in Handles, n \in DocNames : ev_documents[h][n] # 1

(***************************************************************************)
(* Claims about metadata reads.                                            *)
(***************************************************************************)
\* What C23 asks of one step.
C23_SetThenGetStep ==
    /\ (plast'.op = "set" /\ plast'.result = "ok")
           => metadata'[plast'.key] = plast'.value
    /\ (plast'.op = "get" /\ metadata[plast'.key] # Absent)
           => /\ plast'.result = "ok"
              /\ plast'.ret = metadata[plast'.key]
              /\ plast'.calls = <<>>
              /\ metadata' = metadata
    /\ (/\ plast.op = "set" /\ plast.result = "ok"
        /\ plast'.op = "get" /\ plast'.key = plast.key)
           => /\ plast'.result = "ok"
              /\ plast'.ret = plast.value
              /\ plast'.calls = <<>>

\* C23: a metadata key that was set and is then read returns exactly the
\* value that was set, and the read sends no request: a successful set leaves
\* the value in the cache and a read of a cached key is served from the cache,
\* with or without a client.
C23_SetThenGet == [][C23_SetThenGetStep]_vars

\* On a connected Event a key was set, the service took it, and the read that
\* followed returned the value from the cache.
C23_Witness ==
    /\ ev_client
    /\ plast.proxy = "metadata" /\ plast.op = "get" /\ plast.result = "ok"
    /\ plast.calls = <<>>
    /\ plast.ret = "v2"
    /\ metadata[plast.key] = "v2" /\ r_metadata[plast.key] = "v2"

(***************************************************************************)
(* Claims about the distinct / label_adapter arguments.                    *)
(***************************************************************************)
\* The values of a supplied `distinct` and of a supplied `label_adapter`.
SuppliedDistinct == DistinctArgs \ {"none"}
SuppliedAdapter == AdapterArgs \ {"none"}

\* add_labels called with these arguments ends with this result, writes no
\* field of the Document and sends nothing.
AddLabelsRefused(n, ls, d, a, rpc, result) ==
    LET out == add_labels(n, ls, d, a, rpc)
    IN /\ out.result = result
       /\ out.calls = <<>>
       /\ out.label_indices = label_indices
       /\ out.created_indices = created_indices
       /\ out.remote_labels = remote_labels

\* get_labeler called with these arguments ends with this result and opens
\* no Labeler.
GetLabelerRefused(n, d, a, result) ==
    LET out == get_labeler(n, d, a)
    IN /\ out.result = result
       /\ out.labelers = labelers
       /\ out.labelerObjs = labelerObjs

\* With neither argument supplied the generic adapter that is not distinct is
\* the one used.
NeitherSuppliedGeneric ==
    \A n \in IndexNames :
        /\ LET out == get_labeler(n, "none", "none")
           IN out.result = "ok"
                  => out.labelerObjs[Len(out.labelerObjs)].adapter = "generic"
        /\ \A ls \in LabelLists, rpc \in RpcChoices(client) :
               LET out == add_labels(n, ls, "none", "none", rpc)
               IN out.result = "ok"
                      => /\ out.label_indices[n] = create_index("generic", sorted(ls))
                         /\ ~out.label_indices[n].distinct

\* C24: get_labeler and add_labels called with both distinct and
\* label_adapter fail with ValueError (InvalidArgument) in every state of the
\* Document, and the failed call changes nothing: no Labeler is opened, no
\* index committed, created_indices is as before and no request is sent; with
\* neither supplied the generic adapter that is not distinct is used.
C24_BothSuppliedRejected ==
    /\ \A n \in IndexNames, d \in SuppliedDistinct, a \in SuppliedAdapter :
           /\ GetLabelerRefused(n, d, a, "ValueError")
           /\ \A ls \in LabelLists, rpc \in RpcChoices(client) :
                  AddLabelsRefused(n, ls, d, a, rpc, "ValueError")
    /\ NeitherSuppliedGeneric

\* C24, amended: called with both distinct and label_adapter, get_labeler and
\* add_labels always fail and change nothing: with ValueError when the name is
\* free, and with the KeyError of the name test, which comes first, when
\* get_labeler finds the name in _labelers or add_labels finds it in
\* _label_indices; with neither supplied the generic adapter that is not
\* distinct is used.
C24_BothSuppliedFails ==
    /\ \A n \in IndexNames, d \in SuppliedDistinct, a \in SuppliedAdapter :
           /\ GetLabelerRefused(n, d, a,
                  IF \E i \in DOMAIN labelers : labelers[i] = n
                  THEN "KeyError" ELSE "ValueError")
           /\ \A ls \in LabelLists, rpc \in RpcChoices(client) :
                  AddLabelsRefused(n, ls, d, a, rpc,
                      IF label_indices[n].present THEN "KeyError" ELSE "ValueError")
    /\ NeitherSuppliedGeneric

\* A call made with both arguments on a connected Document was refused with
\* ValueError while the name was free on one side and taken on the other.
C24_Witness ==
    /\ client
    /\ last.op = "add_labels" /\ last.result = "ValueError" /\ last.calls = <<>>
    /\ ~label_indices[last.name].present
    /\ \E i \in DOMAIN labelers : labelers[i] = last.name
    /\ created_indices = <<>>

(***************************************************************************)
(* Claims about the lookup of Documents.                                   *)
(***************************************************************************)
\* A lookup that refreshed: every Document the handle held is the one it
\* holds, every listed name it did not hold is a new Document without text,
\* no other name is held, and no Document object that existed was written.
RefreshedFrom(h) ==
    /\ Len(documentObjs') >= Len(documentObjs)
    /\ SubSeq(documentObjs', 1, Len(documentObjs)) = documentObjs
    /\ \A g \in Handles \ {h} : ev_documents'[g] = ev_documents[g]
    /\ \A n \in DocNames :
           IF ev_documents[h][n] # 0
           THEN ev_documents'[h][n] = ev_documents[h][n]
           ELSE IF r_documents[n] = Absent
           THEN ev_documents'[h][n] = 0
           ELSE /\ ev_documents'[h][n] > Len(documentObjs)
                /\ ev_documents'[h][n] <= Len(documentObjs')
                /\ documentObjs'[ev_documents'[h][n]] = NewDocument(n, None, TRUE)
    /\ \A n, m \in DocNames :
           (n # m /\ ev_documents'[h][n] # 0)
               => ev_documents'[h][n] # ev_documents'[h][m]

\* What C25 asks of one step.
C25_LookupStep ==
    elast'.op = "document" =>
        LET h == elast'.handle
            name == elast'.name
        IN /\ r_documents' = r_documents
           /\ IF ev_documents[h][name] # 0
              THEN /\ elast'.result = "ok"
                   /\ elast'.doc = ev_documents[h][name]
                   /\ elast'.calls = <<>>
                   /\ ev_documents' = ev_documents
                   /\ documentObjs' = documentObjs
              ELSE IF ~ev_client
              THEN /\ elast'.result = "KeyError"
                   /\ elast'.calls = <<>>
                   /\ ev_documents' = ev_documents
                   /\ documentObjs' = documentObjs
              ELSE /\ elast'.calls = <<"GetAllDocumentNames">>
                   /\ elast'.result \in {"ok", "KeyError", "RpcError"}
                   /\ elast'.result = "RpcError"
                          => (ev_documents' = ev_documents
                              /\ documentObjs' = documentObjs)
                   /\ elast'.result # "RpcError"
                          => /\ RefreshedFrom(h)
                             /\ elast'.result =
                                    (IF r_documents[name] # Absent
                                     THEN "ok" ELSE "KeyError")
                             /\ elast'.doc = ev_documents'[h][name]

\* C25: event.documents[name] returns the Document its Event holds, with no
\* request; when the Event holds none and has a client it lists the
\* service's document names once, makes a Document without text for every
\* listed name it does not hold, replaces no Document it holds, and returns
\* the one asked for; it raises KeyError (NotFound) when the name is still not
\* held, the mapping staying as the refresh left it. Without a client an
\* absent name raises KeyError at once.
C25_Lookup == [][C25_LookupStep]_vars

\* A lookup through the second Event object listed the names and returned a
\* new Document without text, the first Event object keeping its own Document
\* with its text.
C25_Witness ==
    /\ ev_client
    /\ elast.op = "document" /\ elast.result = "ok"
    /\ elast.calls = <<"GetAllDocumentNames">>
    /\ elast.doc = 2
    /\ documentObjs[2] = NewDocument(elast.name, None, TRUE)
    /\ documentObjs[1].name = elast.name /\ documentObjs[1].text = "t1"
    /\ \E g \in Handles \ {elast.handle} : ev_documents[g][elast.name] = 1

(***************************************************************************)
(* Claims about created_indices.                                           *)
(***************************************************************************)
\* A step in which add_labels, called directly or by the done() of a Labeler,
\* committed an index on the Document. (A call of Event.created_indices
\* leaves `last` as it was and writes `elast`.)
CommitStep ==
    /\ elast' = elast
    /\ last'.op = "add_labels" \/ FirstDoneStep
    /\ last'.result = "ok"

\* What C26 asks of one step.
C26_CreatedIndicesStep ==
    /\ IF CommitStep
       THEN /\ created_indices' = Append(created_indices, last'.name)
            /\ ~label_indices[last'.name].present
            /\ label_indices'[last'.name].present
       ELSE created_indices' = created_indices
    /\ \A n \in CreatedNames :
           /\ CountOf(created_indices', n) <= 1
           /\ CountOf(created_indices', n) = 1 => label_indices'[n].present
    /\ (elast' = elast /\ last'.op = "get_label_index" /\ last'.result = "ok")
           => /\ label_indices'[last'.name].present
              /\ CountOf(created_indices', last'.name) =
                     CountOf(created_indices, last'.name)
    /\ (elast' # elast /\ elast'.op = "created_indices" /\ elast'.result = "ok")
           => /\ elast'.ret.held = {n \in DocNames : ev_documents'[1][n] # 0}
              /\ "d1" \in elast'.ret.held
              /\ elast'.ret.created["d1"] = created_indices
              /\ \A n \in DocNames \ {"d1"} : elast'.ret.created[n] = <<>>
              /\ ev_client => \A n \in DocNames :
                                  r_documents[n] # Absent => n \in elast'.ret.held

\* C26: with add_created_indices unused, created_indices of a Document is the
\* list of the index names committed on it by add_labels, called directly or
\* by a Labeler: a commit appends its name, nothing else writes the list, so
\* each committed name is in it once, in the order of the commits; a name
\* that get_label_index fetched is not added; and Event.created_indices
\* reports this list for the Document, and a list for every document of the
\* event.
C26_CreatedIndices == [][C26_CreatedIndicesStep]_vars

\* On a connected Document one name was fetched and, after it, an index was
\* committed under the other name through a Labeler; the Event then reported
\* the list, which holds only the committed name.
C26_Witness ==
    /\ client
    /\ elast.op = "created_indices" /\ elast.result = "ok"
    /\ elast.ret.held = DocNames
    /\ elast.ret.created["d1"] = <<"two">>
    /\ created_indices = <<"two">>
    /\ label_indices["one"].present /\ label_indices["two"].present
    /\ last.op = "done" /\ last.result = "ok" /\ last.name = "two"

(***************************************************************************)
(* Claims about get_label_indices_info.                                    *)
(***************************************************************************)
\* The entries of a list of infos that name n.
InfosOf(infos, n) == {i \in DOMAIN infos : infos[i].index_name = n}

\* C27: without a client get_label_indices_info sends nothing and returns
\* exactly one entry for every label index the Document holds and none for any
\* other name, a name that only has a Labeler included, each of type JSON
\* whichever adapter made the index; with a client it returns what the service
\* reports: one entry for every index the service holds, of the reported type.
C27_LabelIndicesInfo ==
    \A rpc \in RpcChoices(client), reply \in [CreatedNames -> WireTypes] :
        LET out == get_label_indices_info(rpc, reply)
        IN IF ~client
           THEN /\ out.result = "ok"
                /\ out.calls = <<>>
                /\ \A n \in CreatedNames :
                       Cardinality(InfosOf(out.ret, n)) =
                           (IF label_indices[n].present THEN 1 ELSE 0)
                /\ \A i \in DOMAIN out.ret : out.ret[i].type = "JSON"
           ELSE /\ out.calls = <<"GetLabelIndicesInfo">>
                /\ out.result = rpc
                /\ rpc = "ok" =>
                       /\ \A n \in CreatedNames :
                              Cardinality(InfosOf(out.ret, n)) =
                                  (IF remote_labels[n].present THEN 1 ELSE 0)
                       /\ \A i \in DOMAIN out.ret :
                              out.ret[i].type = reply[out.ret[i].index_name]

\* Without a client, get_label_indices_info returned one JSON entry, for the
\* index that the distinct adapter made, and none for the name that has only a
\* Labeler.
C27_Witness ==
    /\ ~client
    /\ elast.op = "get_label_indices_info" /\ elast.result = "ok"
    /\ elast.ret = <<LabelIndexInfo("two", "JSON")>>
    /\ label_indices["two"].present /\ label_indices["two"].distinct
    /\ ~label_indices["one"].present
    /\ \E i \in DOMAIN labelers : labelers[i] = "one"
    /\ last.op = "get_labeler" /\ last.name = "one" /\ last.result = "ok"

(***************************************************************************)
(* Claims about concurrent add_labels.                                     *)
(***************************************************************************)
\* The AddLabels requests that the threads' calls sent.
AddLabelsRequests ==
    Cardinality({t \in Threads : Sent(tl[t], {"AddLabels"})})

\* C28: of two threads' add_labels calls with the same index name on one
\* Document, whatever the interleaving, exactly one commits and the other
\* fails with KeyError (AlreadyExists): once both have returned, neither with
\* a transport error, one ended ok and the other with KeyError, the index is
\* the one the successful call made, created_indices holds the name once and
\* at most one AddLabels request was sent.
C28_ConcurrentAddLabels ==
    \A t1, t2 \in Threads :
        (/\ t1 # t2
         /\ Returned(t1) /\ Returned(t2)
         /\ tl[t1].result # "RpcError" /\ tl[t2].result # "RpcError"
         /\ \A t \in Threads \ {t1, t2} : pc[t] = "idle" /\ tl[t].result = "none")
            => /\ {tl[t1].result, tl[t2].result} = {"ok", "KeyError"}
               /\ CountOf(created_indices, "one") = 1
               /\ AddLabelsRequests <= 1
               /\ \E t \in {t1, t2} :
                      /\ tl[t].result = "ok"
                      /\ label_indices["one"] =
                             create_index("generic", sorted(tl[t].labels))

(***************************************************************************)
(* Claims about the names of the binaries proxy.                           *)
(***************************************************************************)
\* What C29 asks of one step.
C29_BinaryNamesStep ==
    /\ bin_names' \subseteq Keys
    /\ \A k \in Keys : binaries'[k] # Absent => k \in bin_names'
    /\ \A k \in bin_names' :
           k \in bin_names \/ r_binaries[k] # Absent
               \/ (plast'.op = "set" /\ plast'.key = k)
    /\ (plast'.op = "get" /\ Sent(plast', {"GetBinaryData"}) /\ plast'.result = "ok")
           => bin_names' = bin_names \cup {plast'.key}

\* C29: the names that the binaries proxy iterates and counts are binary
\* names only, each one set through the proxy or held by the service; every
\* key whose value is cached is among them; and a get that fetched a value
\* from the service adds its key, and nothing else, to the names.
C29_BinaryNames == [][C29_BinaryNamesStep]_vars

(***************************************************************************)
(* Claims about a failed AddLabels request.                                *)
(***************************************************************************)
\* A step in which add_labels, called directly or by the done() of a Labeler,
\* sent the AddLabels request and the request failed.
FailedPushStep ==
    /\ last'.op = "add_labels" \/ FirstDoneStep
    /\ last'.calls = <<"AddLabels">>
    /\ last'.result = "RpcError"

\* What C30 asks of one step.
C30_FailedPushLeavesNoTraceStep ==
    /\ FailedPushStep
           => /\ client
              /\ ~label_indices'[last'.name].present
              /\ label_indices' = label_indices
              /\ created_indices' = created_indices
              /\ remote_labels' = remote_labels
    /\ (/\ last.op = "add_labels" /\ last.result = "RpcError"
        /\ last'.op = "add_labels" /\ last'.name = last.name)
           => last'.result # "KeyError"
    /\ (last'.op = "add_labels" /\ last'.result = "KeyError")
           => label_indices[last'.name].present

\* C30: when the AddLabels request of add_labels fails on a connected
\* Document the error reaches the caller and the Document keeps nothing of the
\* commit: the name has no cached index, created_indices is as before, and an
\* add_labels for the same name that follows is not refused with KeyError;
\* add_labels raises that KeyError only for a name that has a cached index.
C30_FailedPushLeavesNoTrace == [][C30_FailedPushLeavesNoTraceStep]_vars

\* On a connected Document the request of an add_labels failed: the call
\* raised, and the Document holds no index and lists none.
C30_Witness ==
    /\ client
    /\ last.op = "add_labels" /\ last.result = "RpcError"
    /\ last.calls = <<"AddLabels">>
    /\ ~label_indices[last.name].present
    /\ created_indices = <<>>
    /\ ~remote_labels[last.name].present

\* The name is in the Document's list of Labeler names.
Reserved(names, n) == \E i \in DOMAIN names : names[i] = n

\* What C31 asks of one step.
C31_ReservationKeptStep ==
    /\ \A n \in IndexNames : Reserved(labelers, n) => Reserved(labelers', n)
    /\ \/ labelers' = labelers
       \/ \E n \in IndexNames : labelers' = Append(labelers, n)
    /\ \A n \in IndexNames :
           LabelersOf(labelerObjs', n) # {} => Reserved(labelers', n)
    /\ (last'.op = "get_labeler" /\ LabelersOf(labelerObjs, last'.name) # {})
           => /\ last'.result = "KeyError"
              /\ labelers' = labelers
              /\ labelerObjs' = labelerObjs

\* C31: no operation takes a name out of the Document's list of Labeler
\* names, the name of every Labeler handed out is in it, and get_labeler for
\* a name that already got a Labeler raises KeyError (the spec's AlreadyInUse)
\* and hands out nothing, whatever became of that Labeler: committed, failed
\* in done(), left its block with an error, or never finished.
C31_ReservationKept == [][C31_ReservationKeptStep]_vars

\* A get_labeler call was rejected for a name whose Labeler had staged labels
\* and committed them.
C31_Witness ==
    /\ last.op = "get_labeler"
    /\ last.result = "KeyError"
    /\ label_indices[last.name].present
    /\ created_indices = <<last.name>>
    /\ \E i \in LabelersOf(labelerObjs, last.name) :
           /\ labelerObjs[i].is_done
           /\ labelerObjs[i].current_labels # <<>>

====
